---- MODULE Spec2Model ----
(***************************************************************************)
(* Model of the card store of PokeTCGHub (app/stores/cardStore.ts,         *)
(* useCardStore): the raw-set cache (cardSets), the content-source lookup  *)
(* (getSet), findSet, findCard, sortCards and the reference resolution of  *)
(* buildSet.  The store hands out findSet and buildSet (lines 78-81);      *)
(* findCard is called by buildSet alone.                                   *)
(*                                                                         *)
(* JavaScript objects are modelled with identity: `sets` is the heap of    *)
(* Set objects, `objs` the heap of Card objects, and a Set object's cards  *)
(* array is a sequence of Card object ids.  A CardRef object is embedded   *)
(* in its card by value: the only write to a CardRef is the defaulting of  *)
(* a falsy `set` (lines 51 and 55), and line 63 shares a CardRef           *)
(* (found.ref = card.ref) only after the findCard of line 52 has found a   *)
(* card for card.ref.num, which is then a truthy string for which line 51  *)
(* has made card.ref.set final, so the copy and the original never         *)
(* diverge.                                                                *)
(*                                                                         *)
(* Every async function is cut at its awaits: one action runs a frame from *)
(* the point it is resumed to its next await or to its return.             *)
(*                                                                         *)
(* The card-set composable (app/composables/useCardSet.ts, useCardSet) is  *)
(* modelled by the variable `ui`: its five refs and the position of        *)
(* fetchCardSet at its await.                                              *)
(***************************************************************************)
EXTENDS Integers, Sequences, FiniteSets, TLC

VARIABLES
    corpus,     \* content source: set code -> authored document (static files)
    avail,      \* set codes whose document the content source currently serves
    objs,       \* heap of Card objects, indexed by object id
    sets,       \* heap of Set objects [set, desc, cards: Seq(object id)]
    cardSets,   \* cardSets Map of the store: key -> Set object id, 0 = no entry
    fetches,    \* per key: number of times getSet ran the content query
    tasks,      \* per task: the call in progress and its frames' locals
    ncalls,     \* number of calls started so far
    res,        \* outcome of the call that completed last
    lastRepl,   \* the last execution of line 70: the card replaced, the target
                \* it was built from and the display card put in its place
    ui,         \* the refs of one useCardSet composable and its fetchCardSet
    bus,        \* one EventBusImpl: listener maps, emit calls in progress, log
    di,         \* one DIContainerImpl: registrations, singletons, resolving, log
    cst,        \* the 'cards' Pinia store: its refs, its fetches in progress, log
    inv         \* one CommandInvoker: history, currentIndex, maxHistorySize, log

vars == <<corpus, avail, objs, sets, cardSets, fetches, tasks, ncalls, res,
          lastRepl, ui, bus, di, cst, inv>>

\* The components that do not use the card store.
componentVars == <<bus, di, cst, inv>>

storeVars == <<corpus, avail, objs, sets, cardSets, fetches, tasks, res, lastRepl>>

-----------------------------------------------------------------------------
(* Bounds *)

MaxCalls == 3

-----------------------------------------------------------------------------
(* Strings and numbers.  A string is the sequence of its characters; a     *)
(* character that TLA+ has no escape for is written as its code point      *)
(* ("U+00A0").  A JavaScript number is a double: NaN, an infinity, or the  *)
(* finite value m * 2^e (negated when neg is set) with m a natural number  *)
(* below 2^53 and e at least -1074.  The sign of a zero is not kept: no    *)
(* operation of the store tells -0 from 0.  A natural number of any size   *)
(* is the sequence of its digits in base 2^15, the least significant       *)
(* first, without leading zero digits.                                     *)

Digits == {"0", "1", "2", "3", "4", "5", "6", "7", "8", "9"}
HexDigits == Digits \cup {"a", "b", "c", "d", "e", "f", "A", "B", "C", "D", "E", "F"}
OctalDigits == {"0", "1", "2", "3", "4", "5", "6", "7"}
BinaryDigits == {"0", "1"}

\* StrWhiteSpaceChar: the white space and the line terminators of ECMAScript.
WhiteSpace ==
    {"\t", "U+000B", "\f", " ", "U+00A0", "U+FEFF",
     "U+1680", "U+2000", "U+2001", "U+2002", "U+2003", "U+2004", "U+2005",
     "U+2006", "U+2007", "U+2008", "U+2009", "U+200A", "U+202F", "U+205F",
     "U+3000",
     "\n", "\r", "U+2028", "U+2029"}

DigitVal(c) ==
    CASE c = "0" -> 0 [] c = "1" -> 1 [] c = "2" -> 2 [] c = "3" -> 3
      [] c = "4" -> 4 [] c = "5" -> 5 [] c = "6" -> 6 [] c = "7" -> 7
      [] c = "8" -> 8 [] c = "9" -> 9
      [] c \in {"a", "A"} -> 10 [] c \in {"b", "B"} -> 11
      [] c \in {"c", "C"} -> 12 [] c \in {"d", "D"} -> 13
      [] c \in {"e", "E"} -> 14 [] c \in {"f", "F"} -> 15
      [] OTHER -> 0

BaseBits == 15
Base == 2^BaseBits

\* Digits lo..hi of n * m + c with the carry they leave, for a natural number
\* n and m, c below 2^15: the lower half first, its carry goes into the
\* upper half.
RECURSIVE MulRange(_, _, _, _, _)
MulRange(n, m, c, lo, hi) ==
    IF lo > hi THEN [d |-> <<>>, c |-> c]
    ELSE IF lo = hi
    THEN [d |-> <<(n[lo] * m + c) % Base>>, c |-> (n[lo] * m + c) \div Base]
    ELSE LET Join(l, h) == [d |-> l.d \o h.d, c |-> h.c]
             Upper(l) == Join(l, MulRange(n, m, l.c, (lo + hi) \div 2 + 1, hi))
         IN  Upper(MulRange(n, m, c, lo, (lo + hi) \div 2))

\* n * m + c
MulAdd(n, m, c) ==
    LET Whole(x) == IF x.c = 0 THEN x.d ELSE Append(x.d, x.c)
    IN  Whole(MulRange(n, m, c, 1, Len(n)))

\* Digits lo..hi of the quotient of n by m, m below 2^15, with the
\* remainder they leave, r being the remainder of the digits above hi: the
\* upper half first, its remainder goes into the lower half.
RECURSIVE DivRange(_, _, _, _, _)
DivRange(n, m, r, lo, hi) ==
    IF lo > hi THEN [q |-> <<>>, r |-> r]
    ELSE IF lo = hi
    THEN [q |-> <<(r * Base + n[lo]) \div m>>, r |-> (r * Base + n[lo]) % m]
    ELSE LET Join(l, h) == [q |-> l.q \o h.q, r |-> l.r]
             Lower(h) == Join(DivRange(n, m, h.r, lo, (lo + hi) \div 2), h)
         IN  Lower(DivRange(n, m, r, (lo + hi) \div 2 + 1, hi))

\* Quotient and remainder of n by m.
DivRem(n, m) ==
    LET Normal(x) ==
            [q |-> IF x.q # <<>> /\ x.q[Len(x.q)] = 0
                   THEN SubSeq(x.q, 1, Len(x.q) - 1) ELSE x.q,
             r |-> x.r]
    IN  Normal(DivRange(n, m, 0, 1, Len(n)))

\* n * 10^k, four decimal digits at a time.
RECURSIVE TimesPow10(_, _)
TimesPow10(n, k) ==
    IF n = <<>> THEN <<>>
    ELSE IF k < 4 THEN MulAdd(n, 10^k, 0)
    ELSE TimesPow10(MulAdd(n, 10000, 0), k - 4)

\* n * 2^k, fourteen binary digits at a time.
RECURSIVE TimesPow2(_, _)
TimesPow2(n, k) ==
    IF n = <<>> THEN <<>>
    ELSE IF k < 14 THEN MulAdd(n, 2^k, 0)
    ELSE TimesPow2(MulAdd(n, 16384, 0), k - 14)

\* The number of binary digits of n.
BitLen(n) ==
    IF n = <<>> THEN 0
    ELSE BaseBits * (Len(n) - 1)
            + (CHOOSE b \in 1..BaseBits : 2^(b - 1) <= n[Len(n)] /\ n[Len(n)] < 2^b)

\* The binary digit of n that counts 2^i.
Bit(n, i) ==
    IF i \div BaseBits + 1 > Len(n) THEN 0
    ELSE (n[i \div BaseBits + 1] \div 2^(i % BaseBits)) % 2

\* n modulo 2^s is 0.
LowBitsZero(n, s) ==
    /\ \A j \in 1..(s \div BaseBits) : j <= Len(n) => n[j] = 0
    /\ s \div BaseBits + 1 <= Len(n) => n[s \div BaseBits + 1] % 2^(s % BaseBits) = 0

\* n divided by 2^s, rounded down.
TruncBits(n, s) ==
    DivRem(SubSeq(n, s \div BaseBits + 1, Len(n)), 2^(s % BaseBits)).q

\* The sign of a - b for natural numbers a and b.
RECURSIVE CompareNat(_, _)
CompareNat(a, b) ==
    IF Len(a) # Len(b) THEN (IF Len(a) > Len(b) THEN 1 ELSE -1)
    ELSE IF a = <<>> THEN 0
    ELSE IF a[Len(a)] # b[Len(b)] THEN (IF a[Len(a)] > b[Len(b)] THEN 1 ELSE -1)
    ELSE CompareNat(SubSeq(a, 1, Len(a) - 1), SubSeq(b, 1, Len(b) - 1))

NaN == [nan |-> TRUE, inf |-> 0, neg |-> FALSE, m |-> <<>>, e |-> 0]
Zero == [nan |-> FALSE, inf |-> 0, neg |-> FALSE, m |-> <<>>, e |-> 0]
Infinity(sign) == [nan |-> FALSE, inf |-> sign, neg |-> sign < 0, m |-> <<>>, e |-> 0]

\* The double m * 2^e, m having at most 53 binary digits: the largest double
\* is (2^53 - 1) * 2^971.
Finite(sign, m, e) ==
    IF m = <<>> THEN Zero
    ELSE IF BitLen(m) + e > 1024 THEN Infinity(sign)
    ELSE [nan |-> FALSE, inf |-> 0, neg |-> sign < 0, m |-> m, e |-> e]

\* The double nearest to sign * (n + x) * 2^e, ties to even, where n is a
\* natural number and x a fraction, 0 <= x < 1, that is not 0 when inexact
\* is set: the result has 53 binary digits, fewer when it is below 2^-1022
\* (a multiple of 2^-1074).  When inexact is set, n has more than 53 binary
\* digits.
RoundToDouble(sign, n, e, inexact) ==
    LET Shift(len) == (IF len + e - 53 > -1074 THEN len + e - 53 ELSE -1074) - e
        Up(t, up) == IF up THEN MulAdd(t, 1, 1) ELSE t
        Rounded(s) ==
            IF s <= 0 THEN [m |-> n, e |-> e]
            ELSE [m |-> Up(TruncBits(n, s),
                           /\ Bit(n, s - 1) = 1
                           /\ (~LowBitsZero(n, s - 1) \/ inexact \/ Bit(n, s) = 1)),
                  e |-> e + s]
        Made(r) == Finite(sign, r.m, r.e)
    IN  Made(Rounded(Shift(BitLen(n))))

\* The value of a string of at most ChunkLen(radix) digits, below 2^15.
RECURSIVE ChunkValue(_, _)
ChunkValue(s, radix) ==
    IF s = <<>> THEN 0
    ELSE ChunkValue(SubSeq(s, 1, Len(s) - 1), radix) * radix + DigitVal(s[Len(s)])

ChunkLen(radix) == IF radix = 2 THEN 14 ELSE IF radix = 16 THEN 3 ELSE 4

\* The natural number that a string of digits of the radix denotes, read a
\* chunk of digits at a time.
RECURSIVE RadixValue(_, _)
RadixValue(s, radix) ==
    IF Len(s) <= ChunkLen(radix)
    THEN (IF ChunkValue(s, radix) = 0 THEN <<>> ELSE <<ChunkValue(s, radix)>>)
    ELSE MulAdd(RadixValue(SubSeq(s, 1, Len(s) - ChunkLen(radix)), radix),
                radix ^ ChunkLen(radix),
                ChunkValue(SubSeq(s, Len(s) - ChunkLen(radix) + 1, Len(s)), radix))

\* The length of the longest prefix of s made of characters of cs.
RECURSIVE Leading(_, _)
Leading(s, cs) ==
    IF s = <<>> \/ s[1] \notin cs THEN 0 ELSE 1 + Leading(Tail(s), cs)

\* The double nearest to sign * ds, a string of digits of the radix (2, 8,
\* 10 or 16): with more than 1024 binary digits the number is beyond the
\* largest double.
DigitsToDouble(sign, ds, radix) ==
    LET MaxDigits == IF radix = 2 THEN 1024 ELSE IF radix = 8 THEN 342
                     ELSE IF radix = 10 THEN 309 ELSE 256
        Significant(sig) ==
            IF Len(sig) > MaxDigits THEN Infinity(sign)
            ELSE RoundToDouble(sign, RadixValue(sig, radix), 0, FALSE)
    IN  Significant(SubSeq(ds, Leading(ds, {"0"}) + 1, Len(ds)))

\* x.n divided by m, rounded down; inexact tells whether this or an earlier
\* division left a remainder.
DivStep(x, m) ==
    LET Step(d) == [n |-> d.q, inexact |-> x.inexact \/ d.r # 0]
    IN  Step(DivRem(x.n, m))

\* x.n divided by 10^k, rounded down, four decimal digits at a time.
RECURSIVE DivPow10(_, _)
DivPow10(x, k) ==
    IF x.n = <<>> THEN x
    ELSE IF k < 4 THEN DivStep(x, 10^k)
    ELSE DivPow10(DivStep(x, 10000), k - 4)

\* The double nearest to sign * ds * 10^x, ds being a string of decimal
\* digits, nd of them after the leading zeros.  A number of 10^310 or more is
\* beyond the largest double, a number below 10^-330 rounds to 0; for x < 0
\* the digits are scaled by 2^(15 * k), which leaves more than 53 binary
\* digits after the division by 10^-x.
DecimalToDouble(sign, ds, x) ==
    LET k == (4 * (0 - x) + 64) \div BaseBits + 1
        Quotient(d) == [n |-> d.n, e |-> 0 - BaseBits * k, inexact |-> d.inexact]
        Scaled(n) ==
            IF x >= 0 THEN [n |-> TimesPow10(n, x), e |-> 0, inexact |-> FALSE]
            ELSE Quotient(DivPow10([n |-> [j \in 1..k |-> 0] \o n,
                                    inexact |-> FALSE], 0 - x))
        Round(v) == RoundToDouble(sign, v.n, v.e, v.inexact)
        Values(sig, nd) ==
            IF nd = 0 THEN Zero
            ELSE IF nd + x > 310 THEN Infinity(sign)
            ELSE IF nd + x < -330 THEN Zero
            ELSE Round(Scaled(RadixValue(sig, 10)))
        Significant(zeros) ==
            Values(SubSeq(ds, zeros + 1, Len(ds)), Len(ds) - zeros)
    IN  Significant(Leading(ds, {"0"}))

RECURSIVE TrimStart(_)
TrimStart(s) == IF s # <<>> /\ s[1] \in WhiteSpace THEN TrimStart(Tail(s)) ELSE s

RECURSIVE TrimEnd(_)
TrimEnd(s) ==
    IF s # <<>> /\ s[Len(s)] \in WhiteSpace THEN TrimEnd(SubSeq(s, 1, Len(s) - 1))
    ELSE s

HasSign(s) == s # <<>> /\ s[1] \in {"+", "-"}
SignOf(s) == IF s # <<>> /\ s[1] = "-" THEN -1 ELSE 1
Unsigned(s) == IF HasSign(s) THEN Tail(s) ELSE s
HasPrefix(s, cs) == Len(s) >= 2 /\ s[1] = "0" /\ s[2] \in cs

\* parseInt(str) without a radix: leading white space is skipped, a sign is
\* read, 0x or 0X makes the radix 16; the value is that of the longest
\* prefix of digits of the radix, NaN when that prefix is empty.
parseInt(s) ==
    LET Value(sign, body, radix, k) ==
            IF k = 0 THEN NaN
            ELSE DigitsToDouble(sign, SubSeq(body, 1, k), radix)
        Body(sign, body, hex) ==
            Value(sign, body, IF hex THEN 16 ELSE 10,
                  Leading(body, IF hex THEN HexDigits ELSE Digits))
        Prefix(sign, u, hex) ==
            Body(sign, IF hex THEN SubSeq(u, 3, Len(u)) ELSE u, hex)
        Signed(t) == Prefix(SignOf(t), Unsigned(t), HasPrefix(Unsigned(t), {"x", "X"}))
    IN  Signed(TrimStart(s))

\* A literal 0x.., 0o.., 0b..: the digits of its radix and nothing else.
RadixLiteral(t, radix, ds) ==
    IF Len(t) > 2 /\ Leading(SubSeq(t, 3, Len(t)), ds) = Len(t) - 2
    THEN DigitsToDouble(1, SubSeq(t, 3, Len(t)), radix)
    ELSE NaN

\* The value of the digits of an exponent, read exactly up to nine digits
\* after the leading zeros.  An exponent of ten digits or more is 10^9 or
\* more and is taken as 10^9: a literal has fewer than 10^9 - 330 digits, so
\* with either exponent the number is beyond the largest double, or rounds
\* to 0, or is 0 because its digits are.
ExponentValue(ds) ==
    LET Small(sig) == IF Len(sig) > 9 THEN 1000000000
                      ELSE LET n == RadixValue(sig, 10)
                           IN  IF n = <<>> THEN 0
                               ELSE IF Len(n) = 1 THEN n[1]
                               ELSE n[1] + Base * n[2]
    IN  Small(SubSeq(ds, Leading(ds, {"0"}) + 1, Len(ds)))

\* A decimal literal: sign, digits with an optional fraction, optional
\* exponent.  The text is read from left to right: Literal splits off the
\* integer digits, Integer the fraction after a dot, Fraction the exponent,
\* and Value gives the number, NaN when there is no digit or when what
\* follows the fraction is not a well-formed exponent.
DecimalLiteral(t) ==
    LET ExponentDigits(sign, ds) ==
            [ok |-> ds # <<>> /\ Leading(ds, Digits) = Len(ds),
             e |-> sign * ExponentValue(SubSeq(ds, 1, Leading(ds, Digits)))]
        Exponent(x) ==
            IF x = <<>> THEN [ok |-> TRUE, e |-> 0]
            ELSE IF x[1] \notin {"e", "E"} THEN [ok |-> FALSE, e |-> 0]
            ELSE ExponentDigits(SignOf(Tail(x)), Unsigned(Tail(x)))
        Value(sign, ds, f, x) ==
            IF ds = <<>> \/ ~x.ok THEN NaN
            ELSE DecimalToDouble(sign, ds, x.e - f)
        Fraction(sign, int, afterDot, f) ==
            Value(sign, int \o SubSeq(afterDot, 1, f), f,
                  Exponent(SubSeq(afterDot, f + 1, Len(afterDot))))
        Integer(sign, int, rest) ==
            IF rest # <<>> /\ rest[1] = "."
            THEN Fraction(sign, int, Tail(rest), Leading(Tail(rest), Digits))
            ELSE Fraction(sign, int, rest, 0)
        Literal(sign, u, i) ==
            Integer(sign, SubSeq(u, 1, i), SubSeq(u, i + 1, Len(u)))
    IN  Literal(SignOf(t), Unsigned(t), Leading(Unsigned(t), Digits))

\* Unary plus (+str): white space is trimmed at both ends; the empty string
\* is 0; Infinity with an optional sign, an unsigned 0x, 0o or 0b literal and
\* a decimal literal have their value; anything else is NaN.
ToNumber(s) ==
    LET Radix(t) ==
            IF HasPrefix(t, {"x", "X"}) THEN 16
            ELSE IF HasPrefix(t, {"o", "O"}) THEN 8
            ELSE IF HasPrefix(t, {"b", "B"}) THEN 2
            ELSE 10
        RadixDigits(radix) ==
            IF radix = 16 THEN HexDigits
            ELSE IF radix = 8 THEN OctalDigits
            ELSE BinaryDigits
        Literal(t, radix) ==
            IF radix = 10 THEN DecimalLiteral(t)
            ELSE RadixLiteral(t, radix, RadixDigits(radix))
        Trimmed(t) ==
            IF t = <<>> THEN Zero
            ELSE IF Unsigned(t) = <<"I", "n", "f", "i", "n", "i", "t", "y">>
            THEN Infinity(SignOf(t))
            ELSE Literal(t, Radix(t))
    IN  Trimmed(TrimEnd(TrimStart(s)))

\* The sign of |a| - |b| for finite a and b: by the position of the leading
\* binary digit, then by the digits, brought to the same exponent.
CompareMagnitude(a, b) ==
    LET low == IF a.e <= b.e THEN a.e ELSE b.e
        Aligned(x) == [i \in {1, 2} |-> TimesPow2(x[i].m, x[i].e - low)]
        Digitwise(x) == CompareNat(x[1], x[2])
        Leading1(x) == [i \in {1, 2} |-> BitLen(x[i].m) + x[i].e]
        ByLeading(l) ==
            IF l[1] # l[2] THEN (IF l[1] > l[2] THEN 1 ELSE -1)
            ELSE Digitwise(Aligned(<<a, b>>))
    IN  IF a.m = <<>> \/ b.m = <<>>
        THEN (IF a.m = b.m THEN 0 ELSE IF b.m = <<>> THEN 1 ELSE -1)
        ELSE ByLeading(Leading1(<<a, b>>))

\* The sign of a - b for numbers that are not NaN; Infinity - Infinity is
\* NaN, which sort takes as 0.
KeyDifference(a, b) ==
    IF a.inf # 0 \/ b.inf # 0
    THEN (IF a.inf = b.inf THEN 0 ELSE IF a.inf > b.inf THEN 1 ELSE -1)
    ELSE IF a.neg # b.neg THEN (IF a.neg THEN -1 ELSE 1)
    ELSE (IF a.neg THEN -1 ELSE 1) * CompareMagnitude(a, b)

\* a == b on numbers: NaN equals nothing, itself included.
NumEq(a, b) == ~a.nan /\ ~b.nan /\ KeyDifference(a, b) = 0

\* (+str || 0): NaN and 0 are falsy.
SortKey(s) ==
    LET Key(n) == IF n.nan \/ (n.inf = 0 /\ n.m = <<>>) THEN Zero ELSE n
    IN  Key(ToNumber(s))

-----------------------------------------------------------------------------
(* Cards, references, sets *)

\* The JavaScript values undefined and null where a string is expected, and
\* where a card number (a sequence of characters) is expected.
Undefined == "<undefined>"
Null == "<null>"
UndefinedNum == <<Undefined>>
NullNum == <<Null>>

\* value == null
Nullish(str) == str \in {Undefined, Null}
NullishNum(num) == num \in {UndefinedNum, NullNum}

\* Truthiness of a string and of a card number that may be undefined or null.
Truthy(str) == str \notin {"", Undefined, Null}
TruthyNum(num) == num \notin {<<>>, UndefinedNum, NullNum}

\* The string that stands for a value in a string concatenation, and the
\* string that parseInt reads.
StringOf(str) ==
    IF str = Undefined THEN "undefined" ELSE IF str = Null THEN "null" ELSE str
StringOfNum(num) ==
    IF num = UndefinedNum THEN <<"u", "n", "d", "e", "f", "i", "n", "e", "d">>
    ELSE IF num = NullNum THEN <<"n", "u", "l", "l">>
    ELSE num

\* A card's ref: has tells whether the card has one (ref != null); set and
\* num are strings, undefined when the ref leaves them out.
NoRef == [has |-> FALSE, set |-> Undefined, num |-> UndefinedNum, from |-> Undefined]
Ref(s, n, fr) == [has |-> TRUE, set |-> s, num |-> n, from |-> fr]

Card(num, name, hp, img, title, alt, ref) ==
    [num |-> num, name |-> name, hp |-> hp, img |-> img, title |-> title,
     alt |-> alt, ref |-> ref]

NoCard == Card(<<>>, "", 0, "", "", "", NoRef)
NoSet == [set |-> "", desc |-> "", cards |-> <<>>]

\* The value of a Set object: its fields with the cards array dereferenced.
SetValue(os, ss, sid) ==
    [set |-> ss[sid].set, desc |-> ss[sid].desc,
     cards |-> [k \in 1..Len(ss[sid].cards) |-> os[ss[sid].cards[k]]]]

-----------------------------------------------------------------------------
(* The content source: authored documents.  Set "A" and set "B" have a     *)
(* document, set "X" has none.  A card that carries a ref is a stub        *)
(* without gameplay data of its own; a card without ref is a full card     *)
(* with its own artwork.  A ref may leave out its set (undefined) or have  *)
(* an empty one, and may leave out its num or have an empty one.           *)

DocCodes == {"A", "B"}
SetNames == {"A", "B", "X", "", Undefined}      \* arguments of the calls
CacheKeys == {"A", "B", "X", ""}                \* keys cardSets is asked for

\* A stub: a card that carries a ref and no gameplay data of its own.
Stub(num, img, title, alt, r) == Card(num, "", 0, img, title, alt, r)

CardsA1 ==
    {Card(<<"2">>, "nameA2", 20, "imgA2", "titleA2", "alt", NoRef),
     Stub(<<"2">>, "", "titleA2", "alt", Ref(Undefined, <<"1">>, "fromA2")),
     Stub(<<"2">>, "", "titleA2", "alt", Ref(Undefined, <<>>, "fromA2")),
     Stub(<<"2">>, "", "titleA2", "alt", Ref("B", <<"1">>, "fromA2")),
     Stub(<<"2">>, "imgA2", "titleA2", "alt", Ref("B", <<"1">>, "fromA2")),
     Stub(<<"2">>, "", "titleA2", "alt", Ref("B", <<"2">>, "fromA2")),
     Stub(<<"2">>, "", "titleA2", "alt", Ref("B", <<"3">>, "fromA2")),
     Stub(<<"2">>, "", "titleA2", "alt", Ref("X", <<"1">>, "fromA2"))}

CardsA2 ==
    {Card(<<"0", "1">>, "nameA1", 10, "imgA1", "titleA1", "", NoRef),
     Stub(<<"0", "1">>, "", "titleA1", "", Ref("", <<"2">>, "fromA1")),
     Stub(<<"0", "1">>, "", "titleA1", "", Ref("B", <<"1">>, "fromA1")),
     Stub(<<"0", "1">>, "", "titleA1", "", Ref("B", <<"2">>, "fromA1")),
     Stub(<<"0", "1">>, "", "titleA1", "", Ref("B", <<"3">>, "fromA1"))}

CardsB1 ==
    {Card(<<"1">>, "nameB1", 30, "imgB1", "titleB1", "", NoRef),
     Stub(<<"1">>, "", "titleB1", "", Ref(Undefined, <<"2">>, "fromB1")),
     Stub(<<"1">>, "imgB1", "titleB1", "", Ref(Undefined, <<"2">>, "fromB1")),
     Stub(<<"1">>, "", "titleB1", "", Ref("B", <<"2">>, "fromB1")),
     Stub(<<"1">>, "", "titleB1", "", Ref("B", UndefinedNum, "fromB1")),
     Stub(<<"1">>, "imgB1", "titleB1", "", Ref("A", <<"1">>, "fromB1"))}

CardsB2 == {Card(<<"2">>, "nameB2", 40, "imgB2", "titleB2", "", NoRef)}

Corpora ==
    {[c \in DocCodes |->
        IF c = "A" THEN [set |-> "A", desc |-> "Set A", cards |-> <<a1, a2>>]
        ELSE [set |-> "B", desc |-> "Set B", cards |-> <<b1, b2>>]] :
     <<a1, a2, b1, b2>> \in CardsA1 \X CardsA2 \X CardsB1 \X CardsB2}

-----------------------------------------------------------------------------
(* Errors and outcomes.  statusText is kept as the parts the code          *)
(* concatenates: set, then ':' + num when colon is set, then text.         *)

StatusText(set, colon, num, text) ==
    [set |-> set, colon |-> colon, num |-> num, text |-> text]

NoText == StatusText("", FALSE, <<>>, "")

Outcome(op, setName, kind, status, statusText, setv) ==
    [op |-> op, setName |-> setName, kind |-> kind,
     status |-> status, statusText |-> statusText, set |-> setv]

NoOutcome == Outcome("none", "", "none", 0, NoText, NoSet)

\* SetNotFound with a message that leaves the set name out.
SetNotFoundNoCode(k, setName) ==
    Outcome(k.tk.op, k.tk.setName, "H3Error", 404,
            StatusText("", FALSE, <<>>, "Set does not exist."), NoSet)

\* createError of line 15
SetNotFound(k, setName) ==
    Outcome(k.tk.op, k.tk.setName, "H3Error", 404,
            StatusText(setName, FALSE, <<>>, " does not exist."), NoSet)

\* CardNotFound with a message that names the set alone.
CardNotFoundNoNum(k, set, num) ==
    Outcome(k.tk.op, k.tk.setName, "H3Error", 404,
            StatusText(set, FALSE, <<>>, " does not exist."), NoSet)

\* createError of line 39
CardNotFound(k, set, num) ==
    Outcome(k.tk.op, k.tk.setName, "H3Error", 404,
            StatusText(set, TRUE, StringOfNum(num), " does not exist."),
            NoSet)

\* createError of line 46
ParameterError(k) ==
    Outcome(k.tk.op, k.tk.setName, "H3Error", 500,
            StatusText("", FALSE, <<>>, "Parameter setName must be defined."),
            NoSet)

\* undefined.toString() or null.toString() of line 9
ToStringTypeError(k) ==
    Outcome(k.tk.op, k.tk.setName, "TypeError", 0, NoText, NoSet)

\* A return statement: the value is the object itself, which the caller reads
\* when its await resumes (Received).
Returned(k) ==
    Outcome(k.tk.op, k.tk.setName, "ok", 0, NoText, NoSet)

-----------------------------------------------------------------------------
(* Tasks.  A task is one call of findSet or buildSet, the two functions    *)
(* the store returns (lines 78-81), with the frames it has open.  pc tells *)
(* what the task waits for:                                                *)
(*   FS_fetch  getSet awaits the content query (line 8)                    *)
(*   FS_ret    findSet has returned val, its caller is to resume           *)
(*   FC_ret    findCard has returned val, buildSet is to resume            *)
(*   GS_ret    getSet has returned val, findSet is to resume (line 23)     *)
(*   returned  the call has returned object val or thrown out, the caller  *)
(*             of the store is to resume                                   *)
(* bpc is the line of the await buildSet is suspended at (47, 52, 56, 60). *)

Tasks == {1, 2}

IdleTask ==
    [op |-> "none", pc |-> "idle", setName |-> "", code |-> "",
     num |-> <<>>, bpc |-> 0, val |-> 0, set |-> 0, i |-> 0, card |-> 0,
     f |-> 0, found |-> NoCard, out |-> NoOutcome]

NoRepl ==
    [n |-> 0, old |-> NoCard, first |-> NoCard, bpc |-> 0,
     key |-> [set |-> "", num |-> <<>>], f |-> NoCard, new |-> NoCard]

\* A configuration: the store and one task.
Config(tk) ==
    [objs |-> objs, sets |-> sets, cardSets |-> cardSets, fetches |-> fetches,
     lastRepl |-> lastRepl, tk |-> tk]

\* The outermost async function returns the object id (0 when it throws out):
\* its promise settles, the caller resumes in a later step.
Finish(k, out, id) ==
    [k EXCEPT !.tk = [IdleTask EXCEPT !.pc = "returned", !.op = k.tk.op,
                                      !.setName = k.tk.setName,
                                      !.code = k.tk.code,
                                      !.num = k.tk.num, !.val = id, !.out = out]]

\* What the caller finds when its await resumes: the thrown error, or the
\* returned object as it is by then.
Received(os, ss, tk) ==
    IF tk.out.kind # "ok" THEN tk.out
    ELSE [tk.out EXCEPT !.set = SetValue(os, ss, tk.val)]

-----------------------------------------------------------------------------
(* getSet, findSet, findCard *)

\* The query of line 11: the first document whose set field equals setName.
QueryFirst(setName) ==
    IF setName \in avail /\ setName \in DOMAIN corpus
    THEN {corpus[setName]} ELSE {}

\* A document delivered by the content source becomes fresh objects.
Materialize(k, doc) ==
    LET base == Len(k.objs)
        n == Len(doc.cards)
    IN  [k EXCEPT
            !.objs = k.objs \o doc.cards,
            !.sets = Append(k.sets, [set |-> doc.set, desc |-> doc.desc,
                                     cards |-> [j \in 1..n |-> base + j]])]

\* What the caller of findSet does with the Set object sid: a findSet call
\* of the store's user is over, findCard and buildSet resume in a later step.
findSetReturn(k, sid) ==
    IF k.tk.op = "findSet" THEN Finish(k, Returned(k), sid)
    ELSE [k EXCEPT !.tk.pc = "FS_ret", !.tk.val = sid]

\* findSet up to its await (lines 21-23) with getSet up to its await
\* (lines 8-13): a cache hit returns the entry, a miss runs the content
\* query.  The cache has no entry for undefined or null, and setName.toString()
\* of line 9 throws for them before the query is made.
findSetCall(k, setName) ==
    IF Nullish(setName) THEN Finish(k, ToStringTypeError(k), 0)
    ELSE IF k.cardSets[setName] # 0
    THEN findSetReturn([k EXCEPT !.tk.code = setName], k.cardSets[setName])
    ELSE [k EXCEPT !.fetches[setName] = @ + 1,
                   !.tk.code = setName, !.tk.pc = "FS_fetch"]

\* getSetResume that stores an entry in the cache whatever the answer, so
\* that a miss leaves an empty Set object in the cache.
getSetResumeCachesMiss(k, docs) ==
    LET doc == IF docs = {} THEN [set |-> k.tk.code, desc |-> "", cards |-> <<>>]
               ELSE CHOOSE d \in docs : TRUE
        k1 == Materialize(k, doc)
        sid == Len(k1.sets)
        k2 == [k1 EXCEPT !.cardSets[k.tk.code] = sid]
    IN  IF docs = {} THEN Finish(k2, SetNotFound(k2, k.tk.code), 0)
        ELSE [k2 EXCEPT !.tk.pc = "GS_ret", !.tk.val = sid]

\* getSet after its await (lines 14-17), for the answer `docs` of the content
\* query: the error of line 15 goes through findSet and its callers, none of
\* which catches it; the document is returned to findSet.
getSetResume(k, docs) ==
    IF docs = {} THEN Finish(k, SetNotFound(k, k.tk.code), 0)
    ELSE LET doc == CHOOSE d \in docs : TRUE
             k1 == Materialize(k, doc)
         IN  [k1 EXCEPT !.tk.pc = "GS_ret", !.tk.val = Len(k1.sets)]

\* findSet after its await (lines 23-26): it stores what getSet returned and
\* returns it.
findSetResume(k) ==
    findSetReturn([k EXCEPT !.cardSets[k.tk.code] = k.tk.val], k.tk.val)

\* findCard up to its await (line 35).
findCardCall(k, set, num) ==
    findSetCall([k EXCEPT !.tk.num = num], set)

\* FindIndex that compares the numbers as strings.
FindIndexStringEq(os, cards, num) ==
    LET hits == {j \in 1..Len(cards) : os[cards[j]].num = num}
    IN  IF hits = {} THEN 0 ELSE CHOOSE j \in hits : \A h \in hits : j <= h

\* Array.prototype.find of line 37: the first index whose card matches, 0 if none.
FindIndex(os, cards, num) ==
    LET Matches(n) == NumEq(n[1], n[2])
        Numbers(strs) == [i \in {1, 2} |-> parseInt(strs[i])]
        First(hits) ==
            IF hits = {} THEN 0 ELSE CHOOSE j \in hits : \A h \in hits : j <= h
    IN  First({j \in 1..Len(cards) :
                  Matches(Numbers(<<StringOfNum(os[cards[j]].num),
                                    StringOfNum(num)>>))})

\* findCardResume without the check of line 38: with no match it goes on with
\* the first card of the set.
findCardResumeFirstCard(k) ==
    LET cards == k.sets[k.tk.val].cards
        Found(j) == [k EXCEPT !.tk.pc = "FC_ret",
                              !.tk.val = cards[IF j = 0 THEN 1 ELSE j]]
    IN  Found(FindIndex(k.objs, cards, k.tk.num))

\* findCard after its await (lines 37-41): the error of line 39 goes through
\* buildSet, the card is returned to buildSet.
findCardResume(k) ==
    LET cards == k.sets[k.tk.val].cards
        Found(j) ==
            IF j = 0 THEN Finish(k, CardNotFound(k, k.tk.code, k.tk.num), 0)
            ELSE [k EXCEPT !.tk.pc = "FC_ret", !.tk.val = cards[j]]
    IN  Found(FindIndex(k.objs, cards, k.tk.num))

-----------------------------------------------------------------------------
(* sortCards (lines 29-32): Array.prototype.sort is stable; the comparator *)
(* is the difference of the keys (+num || 0).                              *)

\* The key of a card number: +undefined is NaN and +null is 0, both give 0.
NumKey(num) == IF NullishNum(num) THEN Zero ELSE SortKey(num)

Compare(os, a, b) ==
    LET Difference(key) == KeyDifference(key[1], key[2])
        Keys(nums) == [i \in {1, 2} |-> NumKey(nums[i])]
    IN  Difference(Keys(<<os[a].num, os[b].num>>))

\* InsertSorted that puts a card before the cards it compares equal to.
RECURSIVE InsertSortedBeforeEqual(_, _, _)
InsertSortedBeforeEqual(os, sorted, x) ==
    IF sorted = <<>> THEN <<x>>
    ELSE IF Compare(os, sorted[Len(sorted)], x) < 0 THEN Append(sorted, x)
    ELSE Append(InsertSortedBeforeEqual(os, SubSeq(sorted, 1, Len(sorted) - 1), x),
                sorted[Len(sorted)])

RECURSIVE InsertSorted(_, _, _)
InsertSorted(os, sorted, x) ==
    IF sorted = <<>> THEN <<x>>
    ELSE IF Compare(os, sorted[Len(sorted)], x) <= 0 THEN Append(sorted, x)
    ELSE Append(InsertSorted(os, SubSeq(sorted, 1, Len(sorted) - 1), x),
                sorted[Len(sorted)])

RECURSIVE sortCards(_, _)
sortCards(os, cards) ==
    IF cards = <<>> THEN <<>>
    ELSE InsertSorted(os, sortCards(os, SubSeq(cards, 1, Len(cards) - 1)),
                      cards[Len(cards)])

-----------------------------------------------------------------------------
(* buildSet (lines 44-76) *)

\* The loop test and the test of line 50: the first index from i on whose
\* card carries a ref with a num (ref != null and ref.num != null), Len + 1
\* when the loop runs off the array.
NextRef(os, cards, i) ==
    LET js == {j \in i..Len(cards) :
                  os[cards[j]].ref.has /\ ~NullishNum(os[cards[j]].ref.num)}
    IN  IF js = {} THEN Len(cards) + 1 ELSE CHOOSE j \in js : \A h \in js : j <= h

\* Lines 73-75: sort the cards array in place and return the Set object.
buildSetReturn(k) ==
    LET sid == k.tk.set
        Return(k1) == Finish(k1, Returned(k1), sid)
    IN  Return([k EXCEPT !.sets[sid].cards = sortCards(k.objs, @)])

\* buildSetLoop without line 51: the ref is looked up as it was authored.
buildSetLoopNoDefault(k, i) ==
    LET sid == k.tk.set
        cards == k.sets[sid].cards
        j == NextRef(k.objs, cards, i)
    IN  IF j > Len(cards) THEN buildSetReturn(k)
        ELSE LET card == cards[j]
                 r == k.objs[card].ref
                 k1 == [k EXCEPT !.tk.i = j, !.tk.card = card, !.tk.bpc = 52]
             IN  findCardCall(k1, r.set, r.num)

\* Lines 48-52 from index i: skip the cards without ref; at the first card
\* with a ref default its ref.set and call findCard; past the end, return.
buildSetLoop(k, i) ==
    LET sid == k.tk.set
        cards == k.sets[sid].cards
        j == NextRef(k.objs, cards, i)
    IN  IF j > Len(cards) THEN buildSetReturn(k)
        ELSE LET card == cards[j]
                 r == k.objs[card].ref
                 r1 == IF ~Truthy(r.set) /\ TruthyNum(r.num)
                       THEN [r EXCEPT !.set = k.sets[sid].set] ELSE r
                 k1 == [k EXCEPT !.objs[card].ref = r1, !.tk.i = j,
                                 !.tk.card = card, !.tk.bpc = 52]
             IN  findCardCall(k1, r1.set, r1.num)

\* Record of one execution of line 70: the card that was at set.cards[i], the
\* first target (the copy of line 53), the await buildSet resumed from last
\* (52, 56 or 60), the set and num of the last findCard, the target f as
\* lines 52-62 left it, and the card that is at set.cards[i] now.
Replaced(k, k1, f) ==
    [n |-> k.lastRepl.n + 1,
     old |-> k.objs[k.sets[k.tk.set].cards[k.tk.i]],
     first |-> IF k.tk.bpc = 52 THEN k.objs[f] ELSE k.tk.found,
     bpc |-> k.tk.bpc,
     key |-> [set |-> k.tk.code, num |-> k.tk.num],
     f |-> k.objs[f],
     new |-> k1.objs[k1.sets[k.tk.set].cards[k.tk.i]]]

\* buildSetReplace without lines 66-69: alt and img stay the target's.
buildSetReplaceKeepsAltImg(k, f, found) ==
    LET c == k.objs[k.tk.card]
        d == [found EXCEPT !.ref = c.ref, !.title = c.title, !.num = c.num]
        new == Len(k.objs) + 1
        k1 == [k EXCEPT !.objs = Append(k.objs, d),
                        !.sets[k.tk.set].cards[k.tk.i] = new]
        k2 == [k1 EXCEPT !.lastRepl = Replaced(k, k1, f)]
    IN  buildSetLoop(k2, k.tk.i + 1)

\* buildSetReplace without the test of line 67: img is always the referencing
\* card's, empty or not.
buildSetReplaceImgAlways(k, f, found) ==
    LET c == k.objs[k.tk.card]
        d == [found EXCEPT !.ref = c.ref, !.title = c.title, !.num = c.num,
                           !.alt = c.alt, !.img = c.img]
        new == Len(k.objs) + 1
        k1 == [k EXCEPT !.objs = Append(k.objs, d),
                        !.sets[k.tk.set].cards[k.tk.i] = new]
        k2 == [k1 EXCEPT !.lastRepl = Replaced(k, k1, f)]
    IN  buildSetLoop(k2, k.tk.i + 1)

\* buildSetReplace without line 65: the display card keeps the target's num.
buildSetReplaceKeepsTargetNum(k, f, found) ==
    LET c == k.objs[k.tk.card]
        d == [found EXCEPT !.ref = c.ref, !.title = c.title, !.alt = c.alt,
                           !.img = IF Truthy(c.img) THEN c.img ELSE @]
        new == Len(k.objs) + 1
        k1 == [k EXCEPT !.objs = Append(k.objs, d),
                        !.sets[k.tk.set].cards[k.tk.i] = new]
        k2 == [k1 EXCEPT !.lastRepl = Replaced(k, k1, f)]
    IN  buildSetLoop(k2, k.tk.i + 1)

\* Lines 63-70: the display card is the copy `found` with the referencing
\* card's ref, title, num, alt and, when it has one, img; it replaces
\* set.cards[i].  Then the loop goes on with i + 1.
buildSetReplace(k, f, found) ==
    LET c == k.objs[k.tk.card]
        d == [found EXCEPT !.ref = c.ref, !.title = c.title, !.num = c.num,
                           !.alt = c.alt,
                           !.img = IF Truthy(c.img) THEN c.img ELSE @]
        new == Len(k.objs) + 1
        k1 == [k EXCEPT !.objs = Append(k.objs, d),
                        !.sets[k.tk.set].cards[k.tk.i] = new]
        k2 == [k1 EXCEPT !.lastRepl = Replaced(k, k1, f)]
    IN  buildSetLoop(k2, k.tk.i + 1)

\* Line 47 after its await.
buildSetAfter47(k) ==
    buildSetLoop([k EXCEPT !.tk.set = k.tk.val], 1)

\* Lines 52-62 after the await of line 52, f being the card findCard
\* returned: line 54 tests f.img && f.ref && f.ref.num, line 59 tests
\* f.ref && f.ref.set.
buildSetAfter52(k) ==
    LET f == k.tk.val
        found == k.objs[f]
        fr == found.ref
    IN  IF Truthy(found.img) /\ fr.has /\ TruthyNum(fr.num)
        THEN LET r1 == IF ~Truthy(fr.set)
                       THEN [fr EXCEPT !.set = k.objs[k.tk.card].ref.set] ELSE fr
                 k1 == [k EXCEPT !.objs[f].ref = r1, !.tk.f = f,
                                 !.tk.found = found, !.tk.bpc = 56]
             IN  findCardCall(k1, r1.set, r1.num)
        ELSE IF fr.has /\ Truthy(fr.set)
        THEN findCardCall([k EXCEPT !.tk.f = f, !.tk.found = found, !.tk.bpc = 60],
                          fr.set, fr.num)
        ELSE buildSetReplace(k, f, found)

\* buildSetAfter56 without line 57: the second-level target keeps its img.
buildSetAfter56KeepsSecondImg(k) ==
    buildSetReplace(k, k.tk.val, k.objs[k.tk.val])

\* Lines 56-58 after the await of line 56: the second-level target gets the
\* first target's img and is copied.
buildSetAfter56(k) ==
    LET f == k.tk.val
        k1 == [k EXCEPT !.objs[f].img = k.tk.found.img]
    IN  buildSetReplace(k1, f, k1.objs[f])

\* Lines 60-61 after the await of line 60.
buildSetAfter60(k) ==
    buildSetReplace(k, k.tk.val, k.objs[k.tk.val])

buildSetResume(k) ==
    CASE k.tk.bpc = 47 -> buildSetAfter47(k)
      [] k.tk.bpc = 52 -> buildSetAfter52(k)
      [] k.tk.bpc = 56 -> buildSetAfter56(k)
      [] k.tk.bpc = 60 -> buildSetAfter60(k)

\* buildSetCall without the check of lines 45-46.
buildSetCallUnchecked(k, setName) ==
    findSetCall([k EXCEPT !.tk.bpc = 47], setName)

\* Lines 45-47: the parameter check, then findSet.
buildSetCall(k, setName) ==
    IF ~Truthy(setName) THEN Finish(k, ParameterError(k), 0)
    ELSE findSetCall([k EXCEPT !.tk.bpc = 47], setName)

-----------------------------------------------------------------------------
(* The card-set composable (useCardSet.ts).  null is a record of the same  *)
(* shape as the value it stands for.  The timestamp of an error is left    *)
(* out.  The card service answers a request with a set, with an error      *)
(* result, or by throwing.                                                 *)

NullSet == [set |-> "<null>", desc |-> "", cards |-> <<>>]
\* A message is the sequence of the pieces the code puts it together from.
NullError == [type |-> "<null>", message |-> <<>>]
ApiError(type, message) == [type |-> type, message |-> message]

\* LoadingState (ui.types.ts)
LoadingState == {"idle", "loading", "success", "error"}

NoAnswer ==
    [kind |-> "none", data |-> NullSet, error |-> NullError,
     isError |-> FALSE, message |-> <<>>]
DataResult(d) == [NoAnswer EXCEPT !.kind = "data", !.data = d]
ErrorResult(e) == [NoAnswer EXCEPT !.kind = "error", !.error = e]
Thrown(isError, message) ==
    [NoAnswer EXCEPT !.kind = "throw", !.isError = isError, !.message = message]

\* What a piece of code can throw: an Error with its message, or a value
\* that is not an Error.
Throwables == {Thrown(TRUE, <<"boom">>), Thrown(FALSE, <<>>)}

\* The documents the card service reads.  A key that a document may leave
\* out holds the sequence of its value, empty when the key is absent.  An
\* image location is a string of which the scheme is kept apart: a location
\* without scheme (/en/blk/031.jpg) is not a URL.
None == <<>>
Some(v) == <<v>>

Location(scheme, path) == [scheme |-> scheme, path |-> path]
Images(en, jp) == [en |-> en, jp |-> jp]
ServiceRef(set, num, from) == [set |-> set, num |-> num, from |-> from]
ServiceCard(num, name, hp, img, title, alt, ref) ==
    [num |-> num, name |-> name, hp |-> hp, img |-> img, title |-> title,
     alt |-> alt, ref |-> ref]

ServiceDocsA ==
    {[set |-> "A", desc |-> "Set A",
      cards |-> <<ServiceCard("1", Some("nameA1"), Some(10),
                              Some(Images(Some(Location(scheme, "/en/a/1.jpg")), None)),
                              Some("titleA1"), None, None),
                  ServiceCard("2", None, None, None, Some("titleA2"), Some("alt"),
                              Some(ServiceRef(Some("B"), Some("1"), Some("fromA2"))))>>] :
     scheme \in {"https", ""}}

ServiceDocsB ==
    {[set |-> "B", desc |-> "Set B",
      cards |-> <<ServiceCard("1", Some("nameB1"), Some(30), None,
                              Some("titleB1"), None, None),
                  ServiceCard("2", None, hp, None, None, None,
                              Some(ServiceRef(set, Some("1"), Some("fromB2"))))>>] :
     <<hp, set>> \in {<<None, Some("B")>>, <<None, None>>, <<Some(0), Some("B")>>}}

ServiceCorpora ==
    {[c \in DocCodes |-> IF c = "A" THEN a ELSE b] :
     <<a, b>> \in ServiceDocsA \X ServiceDocsB}

\* z.string().min(1) on a key that must be there.
RequiredString(o) == o # None /\ o[1] # ""

\* cardImagesSchema (lines 132-135): en and jp are URLs when they are there.
ValidImages(img) ==
    \A l \in {img.en, img.jp} : l = None \/ l[1].scheme # ""

\* cardReferenceSchema (lines 140-144): set, num and from are non-empty strings.
ValidRef(r) == RequiredString(r.set) /\ RequiredString(r.num) /\ RequiredString(r.from)

\* cardSchema (lines 149-165) on the keys the documents have: num is a
\* non-empty string, hp a positive integer, img and ref fit their schemas.
ValidCard(c) ==
    /\ c.num # ""
    /\ c.hp = None \/ c.hp[1] > 0
    /\ c.img = None \/ ValidImages(c.img[1])
    /\ c.ref = None \/ ValidRef(c.ref[1])

\* What z.object gives for a card: the keys of the schema; title and alt are
\* not keys of cardSchema and are dropped.
ParsedCard(c) ==
    [num |-> c.num, name |-> c.name, hp |-> c.hp, img |-> c.img, ref |-> c.ref]

\* validateCardSet (lines 186-188): cardSetSchema.safeParse(data).
validateCardSet(data) ==
    [success |-> /\ data.set # "" /\ data.desc # ""
                 /\ \A j \in 1..Len(data.cards) : ValidCard(data.cards[j]),
     data |-> [set |-> data.set, desc |-> data.desc,
               cards |-> [j \in 1..Len(data.cards) |-> ParsedCard(data.cards[j])]]]

\* CardRepositoryImpl.findOne (card.repository.ts, lines 19-55): the document,
\* NOT_FOUND when there is none, NETWORK_ERROR when the query throws.
findOne(setCode) ==
    (IF setCode \in DOMAIN corpus THEN {DataResult(corpus[setCode])} ELSE {})
    \cup {ErrorResult(ApiError("NOT_FOUND", <<"Card set ", setCode, " not found">>))}
    \cup {ErrorResult(ApiError("NETWORK_ERROR",
                                IF t.isError THEN t.message
                                ELSE <<"Failed to fetch card set">>)) :
            t \in Throwables}

\* CardService.handleError (card.service.ts).
handleError(t) ==
    ApiError("UNKNOWN_ERROR",
             IF t.isError THEN t.message ELSE <<"An unknown error occurred">>)

\* CardService.getCardSet after findOne (lines 72-94), result being what
\* findOne gave: an error result is passed on; a document that fails the
\* validation gives a validation error; otherwise the answer carries
\* validation.data, the parsed copy of the document.
getCardSet(result) ==
    IF result.kind # "data" THEN result
    ELSE IF ~validateCardSet(result.data).success
    THEN ErrorResult(ApiError("VALIDATION_ERROR", <<"Invalid card set data">>))
    ELSE DataResult(validateCardSet(result.data).data)

\* What CardService.getCardSet(setCode) answers (lines 69-102): what it makes
\* of the result of findOne, or what handleError makes of an exception; it
\* never rejects.
ServiceAnswers(setCode) ==
    {getCardSet(result) : result \in findOne(setCode)}
    \cup {ErrorResult(handleError(t)) : t \in Throwables}

\* What the await of cardService.getCardSet can give its caller: an answer of
\* the service, or the rejection that the catch of fetchCardSet (lines 56-64)
\* and the finally of the store's fetchCardSet provide for.
AwaitedAnswers(setCode) == ServiceAnswers(setCode) \cup Throwables

\* Lines 28-32: the refs of a new composable.
UiIdle ==
    [cardSet |-> NullSet, cards |-> <<>>, loading |-> FALSE, error |-> NullError,
     state |-> "idle", pc |-> "idle", code |-> "", last |-> NoAnswer,
     pend |-> {}, nreq |-> 0, latest |-> NoAnswer]

\* A call of fetchCardSet that is suspended at its await: the nreq-th call
\* of the composable, for this code.
Request(id, code) == [id |-> id, code |-> code]

\* fetchCardSet up to its await (lines 38-43).
fetchCardSetCall(u, code) ==
    [u EXCEPT !.loading = TRUE, !.state = "loading", !.error = NullError,
              !.pc = "await", !.code = code,
              !.pend = @ \cup {Request(u.nreq + 1, code)},
              !.nreq = @ + 1, !.latest = NoAnswer]

\* fetchCardSetResume without the finally block of lines 65-67.
fetchCardSetResumeNoFinally(u, r) ==
    IF r.kind = "data"
    THEN [u EXCEPT !.cardSet = r.data, !.cards = r.data.cards,
                   !.state = "success", !.pc = "idle", !.last = r]
    ELSE [u EXCEPT !.error = IF r.kind = "error" THEN r.error
                             ELSE ApiError("UNKNOWN_ERROR",
                                           IF r.isError THEN r.message
                                           ELSE <<"Unknown error occurred">>),
                   !.state = "error", !.cardSet = NullSet, !.cards = <<>>,
                   !.pc = "idle", !.last = r]

\* fetchCardSet after its await (lines 43-67), r being the service's answer.
fetchCardSetResume(u, r) ==
    IF r.kind = "data"
    THEN [u EXCEPT !.cardSet = r.data, !.cards = r.data.cards,
                   !.state = "success", !.loading = FALSE,
                   !.pc = "idle", !.last = r]
    ELSE IF r.kind = "error"
    THEN [u EXCEPT !.error = r.error, !.state = "error", !.cardSet = NullSet,
                   !.cards = <<>>, !.loading = FALSE, !.pc = "idle", !.last = r]
    ELSE [u EXCEPT !.error = ApiError("UNKNOWN_ERROR",
                                      IF r.isError THEN r.message
                                      ELSE <<"Unknown error occurred">>),
                   !.state = "error", !.cardSet = NullSet, !.cards = <<>>,
                   !.loading = FALSE, !.pc = "idle", !.last = r]

\* The call q of fetchCardSet resumes with the service's answer r and runs to
\* its end (lines 43-67); other calls may still be suspended.
fetchCardSetSettle(u, q, r) ==
    [fetchCardSetResume(u, r) EXCEPT
        !.pend = @ \ {q},
        !.pc = IF u.pend \ {q} = {} THEN "idle" ELSE "await",
        !.latest = IF q.id = u.nreq THEN r ELSE @]

\* useCardSet(setCode) (lines 27-99): with a truthy set code the fetch starts
\* at once; undefined and the empty string are falsy.
useCardSet(setCode) ==
    IF Truthy(setCode) THEN fetchCardSetCall(UiIdle, setCode)
    ELSE UiIdle

-----------------------------------------------------------------------------
(* The event bus (event-bus.impl.ts).  listeners and onceListeners map an  *)
(* event type to its Set of handlers, kept as the sequence of the handlers *)
(* in the order they were added, which is the order Array.from gives; a    *)
(* key is present exactly when its Set is not empty, so an absent key is   *)
(* the empty sequence.  A handler is a function of the caller: called, it  *)
(* returns (a value or a promise that resolves), returns a promise that    *)
(* rejects, or throws.  A handler call is counted when emit makes it,      *)
(* inside Array.from(...).map; the await of Promise.all is where an emit   *)
(* call is suspended.  The fields onces, onceType, plain, cancelled,       *)
(* claimed, due and failed are a log of what was asked of the bus and of   *)
(* whether an emit rejected, kept to state properties; no operation reads  *)
(* them.                                                                   *)

EvTypes == {"x", "y"}
Handlers == {"h1", "h2"}
Emitters == {1, 2}

\* What a handler does when it is called.
Behaviours == {"resolves", "rejects", "throws"}

IdleEmit ==
    [pc |-> "idle", type |-> "", owes |-> {},
     does |-> [h \in Handlers |-> "resolves"], rejects |-> FALSE,
     out |-> "none"]

BusInit ==
    [listeners |-> [t \in EvTypes |-> <<>>],
     onceListeners |-> [t \in EvTypes |-> <<>>],
     emits |-> [e \in Emitters |-> IdleEmit],
     invoked |-> [h \in Handlers |-> 0],
     onces |-> [h \in Handlers |-> 0],
     onceType |-> [h \in Handlers |-> ""],
     plain |-> {}, cancelled |-> {}, claimed |-> {}, due |-> {},
     failed |-> FALSE, nops |-> 0]

\* The handlers of hs that map calls: all of them, in order, or those up to
\* and with the first one that throws, which ends the map.
CalledHandlers(hs, does) ==
    LET throwers == {i \in 1..Len(hs) : does[hs[i]] = "throws"}
        UpTo(n) == {hs[i] : i \in 1..n}
    IN  IF throwers = {} THEN UpTo(Len(hs))
        ELSE UpTo(CHOOSE i \in throwers : \A j \in throwers : i <= j)

\* handler(data) for the handlers of hs in their order; thrown tells that
\* one of them threw, rejects that the promise of one of them rejects.
Invoke(b, hs, does) ==
    [bus |-> [b EXCEPT !.invoked =
                 [h \in Handlers |->
                    IF h \in CalledHandlers(hs, does) THEN @[h] + 1 ELSE @[h]]],
     thrown |-> \E i \in 1..Len(hs) : does[hs[i]] = "throws",
     rejects |-> \E i \in 1..Len(hs) : does[hs[i]] = "rejects"]

\* Line 75: the emit call e is over, its promise resolves.
emitReturn(b, e) ==
    [b EXCEPT !.emits[e] = [IdleEmit EXCEPT !.out = "resolved"],
              !.due = @ \cup b.emits[e].owes]

\* A handler threw inside map, or the await of Promise.all threw: the emit
\* call e is over at that point and its promise rejects.
emitReject(b, e) ==
    [b EXCEPT !.emits[e] = [IdleEmit EXCEPT !.out = "rejected"],
              !.due = @ \cup b.emits[e].owes, !.failed = TRUE]

\* Lines 70-72, up to the await: the once listeners are called.
emitOnce(b, e) ==
    LET hs == b.onceListeners[b.emits[e].type]
        After(r) ==
            IF r.thrown THEN emitReject(r.bus, e)
            ELSE [r.bus EXCEPT !.emits[e].pc = "await72",
                               !.emits[e].rejects = r.rejects]
    IN  IF hs # <<>> THEN After(Invoke(b, hs, b.emits[e].does))
        ELSE emitReturn(b, e)

\* Lines 72-73 after the await: the once listeners of the type are dropped.
emitAfter72(b, e) ==
    emitReturn([b EXCEPT !.onceListeners[b.emits[e].type] = <<>>], e)

\* emit(eventType, data) up to its first await (lines 49-72); does is what
\* each handler does when this emit calls it.  The call owes a call to
\* every handler subscribed with once to this type before it started and
\* that no earlier emit owes.
emitCall(b, e, eventType, does) ==
    LET owes == {h \in Handlers : /\ b.onces[h] > 0 /\ b.onceType[h] = eventType
                                  /\ h \notin b.claimed}
        b1 == [b EXCEPT !.emits[e] = [pc |-> "run", type |-> eventType,
                                      owes |-> owes, does |-> does,
                                      rejects |-> FALSE, out |-> "none"],
                        !.claimed = @ \cup owes, !.nops = @ + 1]
        After(r) ==
            IF r.thrown THEN emitReject(r.bus, e)
            ELSE [r.bus EXCEPT !.emits[e].pc = "await66",
                               !.emits[e].rejects = r.rejects]
    IN  IF b.listeners[eventType] # <<>>
        THEN After(Invoke(b1, b.listeners[eventType], does))
        ELSE emitOnce(b1, e)

\* emit after an await: when one of the awaited promises rejects, the await
\* throws and the call is over; otherwise line 66 goes on to the once
\* listeners, line 72 to the delete.
emitResume(b, e) ==
    IF b.emits[e].rejects THEN emitReject(b, e)
    ELSE IF b.emits[e].pc = "await66" THEN emitOnce(b, e)
    ELSE emitAfter72(b, e)

\* Set.add and Set.delete on a Set kept in insertion order.
SetAdd(hs, h) == IF \E i \in 1..Len(hs) : hs[i] = h THEN hs ELSE Append(hs, h)
SetDelete(hs, h) == SelectSeq(hs, LAMBDA x : x # h)

\* on(eventType, handler), lines 80-97.
on(b, eventType, handler) ==
    [b EXCEPT !.listeners[eventType] = SetAdd(@, handler),
              !.plain = @ \cup {handler}, !.nops = @ + 1]

\* once(eventType, handler), lines 102-110.
once(b, eventType, handler) ==
    [b EXCEPT !.onceListeners[eventType] = SetAdd(@, handler),
              !.onces[handler] = @ + 1, !.onceType[handler] = eventType,
              !.claimed = @ \ {handler}, !.due = @ \ {handler},
              !.nops = @ + 1]

\* off(eventType, handler), lines 115-131.
off(b, eventType, handler) ==
    [b EXCEPT !.listeners[eventType] = SetDelete(@, handler),
              !.onceListeners[eventType] = SetDelete(@, handler),
              !.cancelled = @ \cup {handler}, !.nops = @ + 1]

\* offAll(eventType), lines 136-139.
offAll(b, eventType) ==
    [b EXCEPT !.listeners[eventType] = <<>>,
              !.onceListeners[eventType] = <<>>,
              !.cancelled = @ \cup {b.onceListeners[eventType][i] :
                                     i \in 1..Len(b.onceListeners[eventType])},
              !.nops = @ + 1]

\* clear(), lines 169-172.
clear(b) ==
    [b EXCEPT !.listeners = [t \in EvTypes |-> <<>>],
              !.onceListeners = [t \in EvTypes |-> <<>>],
              !.cancelled = @ \cup UNION {{b.onceListeners[t][i] :
                                             i \in 1..Len(b.onceListeners[t])} :
                                          t \in EvTypes},
              !.nops = @ + 1]

-----------------------------------------------------------------------------
(* The dependency injection container (DIContainerImpl) and one scope     *)
(* made by createScope (DIScopeImpl).  A registration is its lifetime and  *)
(* what its factory does: it resolves at most one other identifier with    *)
(* container.resolve, lets an error of that call pass, and then returns an *)
(* instance or throws an error of its own.  An instance is known by        *)
(* whether it has a dispose method ("disposable") or not ("plain").  A Map *)
(* of instances is the sequence of its entries in insertion order, with    *)
(* the number of entries the iterator of a dispose in progress has passed. *)
(* resolve is synchronous, so a top-level call is one step; dispose is     *)
(* suspended at each await of line 204 or 263, and the promise it awaits   *)
(* resolves or rejects.  last is a log of the last top-level call that     *)
(* resolves; nregs counts the calls that register or remove (register,    *)
(* registerInstance, unregister, clear, dispose of the container and of    *)
(* the scope), nres the calls that resolve.                                *)

Ids == {"a", "b"}
Lifetimes == {"singleton", "transient", "scoped"}       \* ServiceLifetime
InstanceKinds == {"plain", "disposable"}
NoDep == "none"
NoReg == [lifetime |-> "none", dep |-> NoDep, fails |-> FALSE, makes |-> "none"]
Registration(lifetime, factory) ==
    [lifetime |-> lifetime, dep |-> factory.dep, fails |-> factory.fails,
     makes |-> factory.makes]

\* A Map from identifiers to instances and its iterator.
EmptyMap == [entries |-> <<>>, cursor |-> 0]

MapIndex(m, identifier) ==
    LET hits == {j \in 1..Len(m.entries) : m.entries[j].id = identifier}
    IN  IF hits = {} THEN 0 ELSE CHOOSE j \in hits : TRUE

MapHas(m, identifier) == MapIndex(m, identifier) # 0
MapGet(m, identifier) == m.entries[MapIndex(m, identifier)].inst
MapKeys(m) == {m.entries[j].id : j \in 1..Len(m.entries)}

\* Map.prototype.set: the value of an entry that is there is replaced in
\* place, a new entry goes to the end.
MapSet(m, identifier, inst) ==
    LET j == MapIndex(m, identifier)
        e == [id |-> identifier, inst |-> inst]
    IN  IF j # 0 THEN [m EXCEPT !.entries[j] = e]
        ELSE [m EXCEPT !.entries = Append(@, e)]

\* Map.prototype.delete: an iterator that has passed the entry has passed
\* one entry less.
MapDelete(m, identifier) ==
    LET j == MapIndex(m, identifier)
    IN  IF j = 0 THEN m
        ELSE [entries |-> SubSeq(m.entries, 1, j - 1)
                            \o SubSeq(m.entries, j + 1, Len(m.entries)),
              cursor |-> IF j <= m.cursor THEN m.cursor - 1 ELSE m.cursor]

\* The first entry the iterator has not passed whose instance has a dispose
\* method (lines 202-203 and 261-262), 0 when there is none.
NextDisposable(m) ==
    LET js == {j \in (m.cursor + 1)..Len(m.entries) : m.entries[j].inst # "plain"}
    IN  IF js = {} THEN 0 ELSE CHOOSE j \in js : \A h \in js : j <= h

\* A call of dispose: "idle" when none was made yet, "await" when it is
\* suspended at the await of the dispose of an instance, "resolved" or
\* "rejected" when it is over.
NoScope == [live |-> FALSE, scopedInstances |-> EmptyMap, disposing |-> "idle"]

NoCall == [op |-> "none", id |-> "", kind |-> "none", who |-> "", src |-> "none"]

ContainerInit ==
    [registrations |-> [i \in Ids |-> NoReg], singletons |-> EmptyMap,
     resolving |-> {}, disposing |-> "idle", scope |-> NoScope,
     last |-> NoCall, nregs |-> 0, nres |-> 0]

\* What a call that resolves gives: the container after it and the error
\* thrown, who being the identifier the error names, or (Instance) the
\* instance and where it came from: the factory, singletons or
\* scopedInstances.
Resolved(d, kind, who) ==
    [d |-> d, kind |-> kind, who |-> who, src |-> "none", inst |-> "none"]
Instance(d, who, src, inst) ==
    [d |-> d, kind |-> "ok", who |-> who, src |-> src, inst |-> inst]

\* register (lines 27-39) and registerSingleton / registerTransient /
\* registerScoped (lines 44-72).
register(d, identifier, lifetime, factory) ==
    [d EXCEPT !.registrations[identifier] = Registration(lifetime, factory)]

\* registerInstance, lines 77-85.
registerInstance(d, identifier, inst) ==
    [d EXCEPT !.singletons = MapSet(@, identifier, inst),
              !.registrations[identifier] =
                  Registration("singleton",
                               [dep |-> NoDep, fails |-> FALSE, makes |-> inst])]

\* resolve whose resolving mark stays when the factory throws.
RECURSIVE resolveNoFinally(_, _)
resolveNoFinally(d, identifier) ==
    LET reg == d.registrations[identifier] IN
    IF identifier \in d.resolving THEN Resolved(d, "circular", identifier)
    ELSE IF reg = NoReg THEN Resolved(d, "notRegistered", identifier)
    ELSE IF reg.lifetime = "singleton" /\ MapHas(d.singletons, identifier)
    THEN Instance(d, identifier, "singletons", MapGet(d.singletons, identifier))
    ELSE
      LET d1 == [d EXCEPT !.resolving = @ \cup {identifier}]
          inner == IF reg.dep = NoDep THEN Resolved(d1, "ok", identifier)
                   ELSE resolveNoFinally(d1, reg.dep)
          made == IF inner.kind # "ok" THEN inner
                  ELSE IF reg.fails THEN Resolved(inner.d, "factoryError", identifier)
                  ELSE Instance(inner.d, identifier, "factory", reg.makes)
      IN  IF made.kind = "ok"
          THEN Instance([made.d EXCEPT
                            !.singletons = IF reg.lifetime = "singleton"
                                           THEN MapSet(@, identifier, reg.makes)
                                           ELSE @,
                            !.resolving = @ \ {identifier}],
                        identifier, "factory", reg.makes)
          ELSE made

\* resolve, lines 90-124.  inner is the factory's own call of resolve, made
\* is what the factory gives (line 113).
RECURSIVE resolve(_, _)
resolve(d, identifier) ==
    LET reg == d.registrations[identifier] IN
    IF identifier \in d.resolving THEN Resolved(d, "circular", identifier)
    ELSE IF reg = NoReg THEN Resolved(d, "notRegistered", identifier)
    ELSE IF reg.lifetime = "singleton" /\ MapHas(d.singletons, identifier)
    THEN Instance(d, identifier, "singletons", MapGet(d.singletons, identifier))
    ELSE
      LET d1 == [d EXCEPT !.resolving = @ \cup {identifier}]
          inner == IF reg.dep = NoDep THEN Resolved(d1, "ok", identifier)
                   ELSE resolve(d1, reg.dep)
          made == IF inner.kind # "ok" THEN inner
                  ELSE IF reg.fails THEN Resolved(inner.d, "factoryError", identifier)
                  ELSE Instance(inner.d, identifier, "factory", reg.makes)
      IN  IF made.kind = "ok"
          THEN Instance([made.d EXCEPT
                            !.singletons = IF reg.lifetime = "singleton"
                                           THEN MapSet(@, identifier, reg.makes)
                                           ELSE @,
                            !.resolving = @ \ {identifier}],
                        identifier, "factory", reg.makes)
          ELSE Resolved([made.d EXCEPT !.resolving = @ \ {identifier}],
                        made.kind, made.who)

\* resolveAll, lines 129-139: the array of the instance of the one
\* registration whose key is the identifier, empty when there is none.
resolveAll(d, identifier) ==
    IF d.registrations[identifier] = NoReg THEN Resolved(d, "empty", identifier)
    ELSE resolve(d, identifier)

\* tryResolve, lines 144-150: an error becomes undefined.
tryResolve(d, identifier) ==
    LET r == resolve(d, identifier)
    IN  IF r.kind = "ok" THEN r ELSE Resolved(r.d, "undefined", identifier)

\* createScope, lines 176-178 and 227-229.
createScope(d) == [d EXCEPT !.scope = [NoScope EXCEPT !.live = TRUE]]

\* DIScopeImpl.resolve, lines 234-253.
scopeResolve(d, identifier) ==
    LET scoped == d.registrations[identifier].lifetime = "scoped" IN
    IF scoped /\ MapHas(d.scope.scopedInstances, identifier)
    THEN Instance(d, identifier, "scopedInstances",
                  MapGet(d.scope.scopedInstances, identifier))
    ELSE LET r == resolve(d, identifier)
         IN  IF r.kind = "ok" /\ scoped
             THEN [r EXCEPT !.d.scope.scopedInstances = MapSet(@, identifier, r.inst)]
             ELSE r

\* unregister, lines 183-186.
unregister(d, identifier) ==
    [d EXCEPT !.registrations[identifier] = NoReg,
              !.singletons = MapDelete(@, identifier)]

\* clear, lines 191-194.
clearContainer(d) ==
    [d EXCEPT !.registrations = [i \in Ids |-> NoReg], !.singletons = EmptyMap]

\* The loop of dispose from its test on (lines 201-209): up to the await of
\* the next instance that has a dispose method, or through clear to the end.
disposeLoop(d) ==
    LET j == NextDisposable(d.singletons)
    IN  IF j = 0 THEN [clearContainer(d) EXCEPT !.disposing = "resolved"]
        ELSE [d EXCEPT !.singletons.cursor = j, !.disposing = "await"]

\* dispose up to its first await or its end (lines 199-210).
dispose(d) == disposeLoop([d EXCEPT !.singletons.cursor = 0])

\* dispose after the await of line 204: a rejection ends it before clear.
disposeResume(d, rejected) ==
    IF rejected THEN [d EXCEPT !.disposing = "rejected", !.singletons.cursor = 0]
    ELSE disposeLoop(d)

\* The loop of DIScopeImpl.dispose from its test on (lines 260-268).
scopeDisposeLoop(d) ==
    LET j == NextDisposable(d.scope.scopedInstances)
    IN  IF j = 0 THEN [d EXCEPT !.scope.scopedInstances = EmptyMap,
                                !.scope.disposing = "resolved"]
        ELSE [d EXCEPT !.scope.scopedInstances.cursor = j,
                       !.scope.disposing = "await"]

\* DIScopeImpl.dispose up to its first await or its end (lines 258-269).
scopeDispose(d) == scopeDisposeLoop([d EXCEPT !.scope.scopedInstances.cursor = 0])

\* DIScopeImpl.dispose after the await of line 263.
scopeDisposeResume(d, rejected) ==
    IF rejected THEN [d EXCEPT !.scope.disposing = "rejected",
                               !.scope.scopedInstances.cursor = 0]
    ELSE scopeDisposeLoop(d)

\* A top-level call that resolves is over: the log moves on.
Logged(d0, op, identifier, r) ==
    [r.d EXCEPT !.last = [op |-> op, id |-> identifier, kind |-> r.kind,
                          who |-> r.who, src |-> r.src],
                !.nres = @ + 1]

-----------------------------------------------------------------------------
(* The 'cards' store (cardStore.ts, useCardsStore).  A Map is a function   *)
(* on the set codes: no entry of cardSets is NullSet, no entry of errors   *)
(* is NullError, no entry of loading is "none".  pend holds the calls of   *)
(* fetchCardSet suspended at their await; nsvc counts the calls made to    *)
(* the card service; op, arg and last are a log of the last call and of    *)
(* the last answer.                                                        *)

NullCode == "<null>"
StoreCodes == {"A", "B", "X"}

CardsStoreInit ==
    [cardSets |-> [c \in StoreCodes |-> NullSet],
     currentSetCode |-> NullCode,
     loading |-> [c \in StoreCodes |-> "none"],
     errors |-> [c \in StoreCodes |-> NullError],
     pend |-> {}, nsvc |-> 0, nops |-> 0, op |-> "none", arg |-> "",
     last |-> [code |-> "", answer |-> NoAnswer]]

\* A call is made: the log moves on.
Called(c, op, arg) == [c EXCEPT !.op = op, !.arg = arg, !.nops = @ + 1]

\* fetchCardSet up to its return or its await (lines 127-138).
cardsFetchCardSetCall(c, setCode) ==
    IF c.cardSets[setCode] # NullSet
    THEN [c EXCEPT !.currentSetCode = setCode]
    ELSE [c EXCEPT !.loading[setCode] = "true", !.errors[setCode] = NullError,
                   !.pend = @ \cup {Request(c.nsvc + 1, setCode)},
                   !.nsvc = @ + 1]

\* fetchCardSet after its await (lines 138-149), for the suspended call q
\* and the service's answer r.
cardsFetchCardSetSettle(c, q, r) ==
    LET c1 == [c EXCEPT !.pend = @ \ {q}, !.loading[q.code] = "false",
                        !.last = [code |-> q.code, answer |-> r]]
    IN  IF r.kind = "data"
        THEN [c1 EXCEPT !.cardSets[q.code] = r.data, !.currentSetCode = q.code]
        ELSE IF r.kind = "error"
        THEN [c1 EXCEPT !.errors[q.code] = r.error]
        ELSE c1

\* setCurrentSet, lines 152-156.
setCurrentSet(c, setCode) ==
    IF c.cardSets[setCode] # NullSet THEN [c EXCEPT !.currentSetCode = setCode]
    ELSE c

\* clearCache that leaves currentSetCode as it is.
clearCacheKeepsCurrent(c) ==
    [c EXCEPT !.cardSets = [k \in StoreCodes |-> NullSet],
              !.loading = [k \in StoreCodes |-> "none"],
              !.errors = [k \in StoreCodes |-> NullError]]

\* clearCache, lines 158-163.
clearCache(c) ==
    [c EXCEPT !.cardSets = [k \in StoreCodes |-> NullSet],
              !.loading = [k \in StoreCodes |-> "none"],
              !.errors = [k \in StoreCodes |-> NullError],
              !.currentSetCode = NullCode]

\* clearError, lines 165-167.
clearError(c, setCode) == [c EXCEPT !.errors[setCode] = NullError]

-----------------------------------------------------------------------------
(* The command invoker (command.pattern.ts).  history is the array of the  *)
(* commands executed, currentIndex the 0-based index of the JavaScript     *)
(* code.  A command is its name and whether it has an undo method; what    *)
(* its validate, execute and undo do is an input of the step that calls or *)
(* awaits them.  execute, undo and redo are async: each runs to its await  *)
(* and goes on in a later step, and the invoker can be called meanwhile.   *)
(* calls are the suspended calls in the order they were made, last is the  *)
(* result of the call that ended last, overlap tells whether a call has    *)
(* been made while another was suspended.                                  *)

Commands ==
    {[name |-> "c1", hasUndo |-> TRUE], [name |-> "c2", hasUndo |-> TRUE],
     [name |-> "c3", hasUndo |-> FALSE]}

\* What a method of a command does when it is called: it returns a value,
\* which is awaited, or it throws.
CallBehaviours == {"returns", "throws"}

\* What the await of that value gives: a result with success true, a result
\* with success false, or the exception of a rejected promise.
CommandOutcomes == {"success", "failure", "throw"}

NoCommand == [name |-> "", hasUndo |-> FALSE]

InvokerInit ==
    [history |-> <<>>, currentIndex |-> -1, maxHistorySize |-> 50,
     calls |-> <<>>, last |-> "none", nops |-> 0, overlap |-> FALSE]

Max(a, b) == IF a > b THEN a ELSE b
Min(a, b) == IF a < b THEN a ELSE b

\* Array.prototype.slice(start, end): a negative index counts from the end.
Slice(arr, start, end) ==
    LET len == Len(arr)
        from == IF start < 0 THEN Max(len + start, 0) ELSE Min(start, len)
        to == IF end < 0 THEN Max(len + end, 0) ELSE Min(end, len)
    IN  [i \in 1..Max(to - from, 0) |-> arr[from + i]]

\* history[index]: undefined outside 0 .. length - 1.
HasEntry(v, index) == index >= 0 /\ index < Len(v.history)

\* canUndo, lines 190-192.
canUndo(v) == v.currentIndex >= 0

\* canRedo, lines 197-199.
canRedo(v) == v.currentIndex < Len(v.history) - 1

\* trimHistory, lines 242-248.
trimHistory(v) ==
    IF Len(v.history) > v.maxHistorySize
    THEN LET removeCount == Len(v.history) - v.maxHistorySize
         IN  [v EXCEPT !.history = Slice(v.history, removeCount, Len(v.history)),
                       !.currentIndex = @ - removeCount]
    ELSE v

\* addToHistory, lines 227-237.
addToHistory(v, entry) ==
    trimHistory([v EXCEPT
        !.history = Append(Slice(v.history, 0, v.currentIndex + 1), entry),
        !.currentIndex = @ + 1])

\* A call of the invoker is made: the log moves on.
Invoked(v) == [v EXCEPT !.nops = @ + 1, !.overlap = @ \/ v.calls # <<>>]

\* The call suspends at the await of line pc.
Suspended(v, op, pc, command) ==
    [v EXCEPT !.calls = Append(@, [op |-> op, pc |-> pc, command |-> command])]

\* The suspended call i goes on: it is no longer among the suspended ones.
Resumed(v, i) ==
    [v EXCEPT !.calls = SubSeq(@, 1, i - 1) \o SubSeq(@, i + 1, Len(@))]

\* execute up to its first await (lines 61-74).  validation is "none" for a
\* command without validate, otherwise what the call of validate does; does
\* is what the call of command.execute does.  An exception is caught at
\* line 88.
execute(v, command, validation, does) ==
    IF validation = "throws" \/ (validation = "none" /\ does = "throws")
    THEN [v EXCEPT !.last = "COMMAND_EXECUTION_ERROR"]
    ELSE Suspended(v, "execute", IF validation = "none" THEN 74 ELSE 67, command)

\* execute after an await, for the suspended call q.  After the await of
\* line 67 (lines 67-74) a failed validation is returned, otherwise
\* command.execute is called, which does `does`; after the await of line 74
\* (lines 74-87) a successful result is added to the history.  An exception
\* is caught at line 88.
executeResume(v, q, outcome, does) ==
    IF outcome = "throw" THEN [v EXCEPT !.last = "COMMAND_EXECUTION_ERROR"]
    ELSE IF q.pc = 67
    THEN IF outcome = "failure" THEN [v EXCEPT !.last = "validation failed"]
         ELSE IF does = "throws" THEN [v EXCEPT !.last = "COMMAND_EXECUTION_ERROR"]
         ELSE Suspended(v, "execute", 74, q.command)
    ELSE IF outcome = "failure" THEN [v EXCEPT !.last = "failure"]
    ELSE [addToHistory(v, q.command) EXCEPT !.last = "success"]

\* undo up to its await (lines 103-130).  Reading command of an undefined
\* entry (line 116) is a TypeError, thrown outside the try; an exception of
\* the call of command.undo is caught at line 137.
undo(v, does) ==
    IF ~canUndo(v) THEN [v EXCEPT !.last = "UNDO_NOT_AVAILABLE"]
    ELSE IF ~HasEntry(v, v.currentIndex) THEN [v EXCEPT !.last = "TypeError"]
    ELSE IF ~v.history[v.currentIndex + 1].hasUndo
    THEN [v EXCEPT !.last = "UNDO_NOT_SUPPORTED"]
    ELSE IF does = "throws" THEN [v EXCEPT !.last = "UNDO_ERROR"]
    ELSE Suspended(v, "undo", 130, NoCommand)

\* undo after its await (lines 130-146): currentIndex is read again and
\* decremented.
undoResume(v, outcome) ==
    IF outcome = "throw" THEN [v EXCEPT !.last = "UNDO_ERROR"]
    ELSE IF outcome = "failure" THEN [v EXCEPT !.last = "failure"]
    ELSE [v EXCEPT !.currentIndex = @ - 1, !.last = "success"]

\* redo up to its await (lines 152-168).  Reading command of an undefined
\* entry (line 165) is a TypeError, thrown outside the try; an exception of
\* the call of command.execute is caught at line 175.
redo(v, does) ==
    IF ~canRedo(v) THEN [v EXCEPT !.last = "REDO_NOT_AVAILABLE"]
    ELSE IF ~HasEntry(v, v.currentIndex + 1) THEN [v EXCEPT !.last = "TypeError"]
    ELSE IF does = "throws" THEN [v EXCEPT !.last = "REDO_ERROR"]
    ELSE Suspended(v, "redo", 168, NoCommand)

\* redo after its await (lines 168-184): currentIndex is read again and
\* incremented.
redoResume(v, outcome) ==
    IF outcome = "throw" THEN [v EXCEPT !.last = "REDO_ERROR"]
    ELSE IF outcome = "failure" THEN [v EXCEPT !.last = "failure"]
    ELSE [v EXCEPT !.currentIndex = @ + 1, !.last = "success"]

\* clearHistory, lines 211-214.
clearHistory(v) == [v EXCEPT !.history = <<>>, !.currentIndex = -1, !.last = "none"]

\* setMaxHistorySize, lines 219-222.
setMaxHistorySize(v, size) ==
    [trimHistory([v EXCEPT !.maxHistorySize = size]) EXCEPT !.last = "none"]

\* The components as their modules create them.
ComponentsInit ==
    /\ bus = BusInit
    /\ di = ContainerInit
    /\ cst = CardsStoreInit
    /\ inv = InvokerInit

-----------------------------------------------------------------------------
(* A call run to its end without interruption on a store of its own, the   *)
(* content source serving every document it has.                           *)

FreshConfig(tk) ==
    [objs |-> <<>>, sets |-> <<>>, cardSets |-> [c \in CacheKeys |-> 0],
     fetches |-> [c \in CacheKeys |-> 0], lastRepl |-> NoRepl, tk |-> tk]

RECURSIVE RunToEnd(_)
RunToEnd(k) ==
    IF k.tk.pc = "returned" THEN Received(k.objs, k.sets, k.tk)
    ELSE IF k.tk.pc = "FS_fetch"
    THEN RunToEnd(getSetResume(k, IF k.tk.code \in DOMAIN corpus
                                  THEN {corpus[k.tk.code]} ELSE {}))
    ELSE IF k.tk.pc = "GS_ret" THEN RunToEnd(findSetResume(k))
    ELSE IF k.tk.pc = "FS_ret" /\ ~(k.tk.op = "buildSet" /\ k.tk.bpc = 47)
    THEN RunToEnd(findCardResume(k))
    ELSE RunToEnd(buildSetResume(k))

\* The outcome of buildSet(setName) run alone on a fresh store.
BuildAlone(setName) ==
    RunToEnd(buildSetCall(FreshConfig([IdleTask EXCEPT !.op = "buildSet",
                                                       !.setName = setName,
                                                       !.pc = "run"]),
                          setName))

-----------------------------------------------------------------------------
(* Actions *)

\* The effect of a configuration on the state: the store and the task as the
\* step left them.
Commit(t, k) ==
    /\ objs' = k.objs
    /\ sets' = k.sets
    /\ cardSets' = k.cardSets
    /\ fetches' = k.fetches
    /\ lastRepl' = k.lastRepl
    /\ tasks' = [tasks EXCEPT ![t] = k.tk]
    /\ UNCHANGED <<res, ui, componentVars>>

NewTask(op, setName) ==
    [IdleTask EXCEPT !.op = op, !.setName = setName, !.pc = "run"]

Idle(t) == tasks[t].pc = "idle"

CallFindSet(t, setName) ==
    /\ Idle(t) /\ ncalls < MaxCalls
    /\ ncalls' = ncalls + 1
    /\ Commit(t, findSetCall(Config(NewTask("findSet", setName)), setName))
    /\ UNCHANGED <<corpus, avail>>

CallBuildSet(t, setName) ==
    /\ Idle(t) /\ ncalls < MaxCalls
    /\ ncalls' = ncalls + 1
    /\ Commit(t, buildSetCall(Config(NewTask("buildSet", setName)), setName))
    /\ UNCHANGED <<corpus, avail>>

\* The content query of task t answers and getSet resumes.
FetchDone(t) ==
    /\ tasks[t].pc = "FS_fetch"
    /\ Commit(t, getSetResume(Config(tasks[t]), QueryFirst(tasks[t].code)))
    /\ UNCHANGED <<corpus, avail, ncalls>>

\* findSet of task t resumes with the Set object getSet returned.
ResumeFindSet(t) ==
    /\ tasks[t].pc = "GS_ret"
    /\ Commit(t, findSetResume(Config(tasks[t])))
    /\ UNCHANGED <<corpus, avail, ncalls>>

\* The caller of task t resumes with what the call returned or threw.
Deliver(t) ==
    /\ tasks[t].pc = "returned"
    /\ res' = Received(objs, sets, tasks[t])
    /\ tasks' = [tasks EXCEPT ![t] = IdleTask]
    /\ UNCHANGED <<corpus, avail, objs, sets, cardSets, fetches, ncalls,
                   lastRepl, ui, componentVars>>

\* findCard of task t resumes with the Set object findSet returned.
ResumeFindCard(t) ==
    /\ tasks[t].pc = "FS_ret"
    /\ ~(tasks[t].op = "buildSet" /\ tasks[t].bpc = 47)
    /\ Commit(t, findCardResume(Config(tasks[t])))
    /\ UNCHANGED <<corpus, avail, ncalls>>

\* buildSet of task t resumes with what findSet (line 47) or findCard returned.
ResumeBuildSet(t) ==
    /\ \/ tasks[t].pc = "FS_ret" /\ tasks[t].op = "buildSet" /\ tasks[t].bpc = 47
       \/ tasks[t].pc = "FC_ret"
    /\ Commit(t, buildSetResume(Config(tasks[t])))
    /\ UNCHANGED <<corpus, avail, ncalls>>

\* The content source starts serving a document that was not there before.
Publish(c) ==
    /\ c \in DOMAIN corpus /\ c \notin avail
    /\ avail' = avail \cup {c}
    /\ UNCHANGED <<corpus, objs, sets, cardSets, fetches, tasks, ncalls, res,
                   lastRepl, ui, componentVars>>

Init ==
    /\ corpus \in Corpora
    /\ avail = {"A"}
    /\ objs = <<>>
    /\ sets = <<>>
    /\ cardSets = [c \in CacheKeys |-> 0]
    /\ fetches = [c \in CacheKeys |-> 0]
    /\ tasks = [t \in Tasks |-> IdleTask]
    /\ ncalls = 0
    /\ res = NoOutcome
    /\ lastRepl = NoRepl
    /\ ui = useCardSet("")
    /\ ComponentsInit

\* Calls issued one after another: a call starts when no call is in progress.
Quiet == \A t \in Tasks : Idle(t)

Next ==
    \/ \E s \in {"A", "B", "X"} : Quiet /\ CallFindSet(1, s)
    \/ \E s \in {"A", "B"} : Quiet /\ CallBuildSet(1, s)
    \/ FetchDone(1)
    \/ ResumeFindSet(1)
    \/ Deliver(1)
    \/ ResumeFindCard(1)
    \/ ResumeBuildSet(1)
    \/ \E c \in DocCodes : Publish(c)

Spec == Init /\ [][Next]_vars

-----------------------------------------------------------------------------
(* Overlapping calls: both tasks issue calls, a call may start while the   *)
(* other task is suspended at an await.                                    *)

CorporaOverlap ==
    {c \in Corpora : /\ c["A"].cards[1].ref \in {NoRef, Ref("B", <<"1">>, "fromA2")}
                     /\ c["A"].cards[1].img = ""  \/ ~c["A"].cards[1].ref.has
                     /\ ~c["A"].cards[2].ref.has
                     /\ c["B"].cards[1].img # ""}

InitOverlap ==
    /\ Init
    /\ corpus \in CorporaOverlap

NextOverlap ==
    \/ \E t \in Tasks, s \in {"A", "B"} : CallFindSet(t, s)
    \/ \E t \in Tasks, s \in {"A"} : CallBuildSet(t, s)
    \/ \E t \in Tasks : FetchDone(t)
    \/ \E t \in Tasks : ResumeFindSet(t)
    \/ \E t \in Tasks : Deliver(t)
    \/ \E t \in Tasks : ResumeFindCard(t)
    \/ \E t \in Tasks : ResumeBuildSet(t)
    \/ \E c \in DocCodes : Publish(c)

SpecOverlap == InitOverlap /\ [][NextOverlap]_vars

-----------------------------------------------------------------------------
(* Calls with any argument, the empty string and undefined included, one   *)
(* after another.                                                          *)

CorporaArgs ==
    {c \in Corpora : /\ c["A"].cards[1].ref \in {NoRef, Ref("B", <<"1">>, "fromA2"),
                                                 Ref("X", <<"1">>, "fromA2")}
                     /\ c["A"].cards[1].img = "" \/ ~c["A"].cards[1].ref.has
                     /\ ~c["A"].cards[2].ref.has
                     /\ c["B"].cards[1].img # ""}

InitArgs ==
    /\ Init
    /\ corpus \in CorporaArgs

NextArgs ==
    \/ \E s \in SetNames : Quiet /\ CallFindSet(1, s)
    \/ \E s \in SetNames : Quiet /\ CallBuildSet(1, s)
    \/ FetchDone(1)
    \/ ResumeFindSet(1)
    \/ Deliver(1)
    \/ ResumeFindCard(1)
    \/ ResumeBuildSet(1)
    \/ \E c \in DocCodes : Publish(c)

SpecArgs == InitArgs /\ [][NextArgs]_vars

-----------------------------------------------------------------------------
(* Two buildSet calls that overlap: the first call starts on the fresh     *)
(* store, every later call starts while another call is suspended at an    *)
(* await.                                                                  *)

CallBuildSetOverlapping(t, setName) ==
    /\ ncalls = 0 \/ \E u \in Tasks \ {t} : tasks[u].pc \notin {"idle", "returned"}
    /\ CallBuildSet(t, setName)

NextPair ==
    \/ \E t \in Tasks, s \in DocCodes : CallBuildSetOverlapping(t, s)
    \/ \E t \in Tasks : FetchDone(t)
    \/ \E t \in Tasks : ResumeFindSet(t)
    \/ \E t \in Tasks : Deliver(t)
    \/ \E t \in Tasks : ResumeFindCard(t)
    \/ \E t \in Tasks : ResumeBuildSet(t)
    \/ \E c \in DocCodes : Publish(c)

SpecPair == InitOverlap /\ [][NextPair]_vars

-----------------------------------------------------------------------------
(* A buildSet that fails after it has resolved a card: the first card of   *)
(* "A" is a stub whose target is there, the second card of "A" is a stub   *)
(* whose target is missing (B has no card 3, there is no set X) or a full  *)
(* card.                                                                   *)

CorporaAbort ==
    {[c \in DocCodes |->
        IF c = "A" THEN [set |-> "A", desc |-> "Set A", cards |-> <<a1, a2>>]
        ELSE [set |-> "B", desc |-> "Set B", cards |-> <<b1, b2>>]] :
     <<a1, a2, b1, b2>> \in
        {Stub(<<"2">>, "", "titleA2", "alt", Ref("B", <<"1">>, "fromA2")),
         Stub(<<"2">>, "", "titleA2", "alt", Ref(Undefined, <<"2">>, "fromA2")),
         Stub(<<"2">>, "imgA2", "titleA2", "alt", Ref("B", <<"2">>, "fromA2"))}
        \X {Card(<<"0", "1">>, "nameA1", 10, "imgA1", "titleA1", "", NoRef),
            Stub(<<"0", "1">>, "", "titleA1", "", Ref("B", <<"3">>, "fromA1")),
            Stub(<<"0", "1">>, "", "titleA1", "", Ref("X", <<"1">>, "fromA1"))}
        \X {Card(<<"1">>, "nameB1", 30, "imgB1", "titleB1", "", NoRef),
            Stub(<<"1">>, "imgB1", "titleB1", "", Ref(Undefined, <<"2">>, "fromB1"))}
        \X CardsB2}

InitAbort ==
    /\ corpus \in CorporaAbort
    /\ avail = {"A"}
    /\ objs = <<>>
    /\ sets = <<>>
    /\ cardSets = [c \in CacheKeys |-> 0]
    /\ fetches = [c \in CacheKeys |-> 0]
    /\ tasks = [t \in Tasks |-> IdleTask]
    /\ ncalls = 0
    /\ res = NoOutcome
    /\ lastRepl = NoRepl
    /\ ui = useCardSet("")
    /\ ComponentsInit

NextAbort ==
    \/ \E s \in DocCodes : Quiet /\ CallFindSet(1, s)
    \/ \E s \in DocCodes : Quiet /\ CallBuildSet(1, s)
    \/ FetchDone(1)
    \/ ResumeFindSet(1)
    \/ Deliver(1)
    \/ ResumeFindCard(1)
    \/ ResumeBuildSet(1)
    \/ \E c \in DocCodes : Publish(c)

SpecAbort == InitAbort /\ [][NextAbort]_vars

-----------------------------------------------------------------------------
(* The composable: fetchCardSet is called when no request is pending, as   *)
(* the card list component does (it awaits the call it makes on mount);    *)
(* the request the composable waits for is answered sooner or later.       *)

UiCodes == {"A", "B", "X"}

FetchCardSet(code) ==
    /\ ui.pc = "idle" /\ ncalls < MaxCalls
    /\ ncalls' = ncalls + 1
    /\ ui' = fetchCardSetCall(ui, code)
    /\ UNCHANGED <<storeVars, componentVars>>

ServiceSettles(r) ==
    /\ ui.pc = "await"
    /\ ui' = fetchCardSetSettle(ui, CHOOSE q \in ui.pend : TRUE, r)
    /\ UNCHANGED <<storeVars, ncalls, componentVars>>

InitCardSet ==
    /\ corpus \in ServiceCorpora
    /\ avail = {"A"}
    /\ objs = <<>>
    /\ sets = <<>>
    /\ cardSets = [c \in CacheKeys |-> 0]
    /\ fetches = [c \in CacheKeys |-> 0]
    /\ tasks = [t \in Tasks |-> IdleTask]
    /\ ncalls = 0
    /\ res = NoOutcome
    /\ lastRepl = NoRepl
    /\ ui \in {useCardSet(c) : c \in {Undefined, "", "A", "X"}}
    /\ ComponentsInit

NextCardSet ==
    \/ \E code \in UiCodes : FetchCardSet(code)
    \/ \E r \in AwaitedAnswers(ui.code) : ServiceSettles(r)

SpecCardSet ==
    InitCardSet /\ [][NextCardSet]_vars
        /\ WF_vars(\E r \in AwaitedAnswers(ui.code) : ServiceSettles(r))

-----------------------------------------------------------------------------
(* The composable with overlapping requests: fetchCardSet may be called    *)
(* while earlier calls are suspended at their await, and the service       *)
(* answers the pending requests in any order.                              *)

MaxPending == 2

FetchCardSetOverlapping(code) ==
    /\ Cardinality(ui.pend) < MaxPending /\ ncalls < MaxCalls
    /\ ncalls' = ncalls + 1
    /\ ui' = fetchCardSetCall(ui, code)
    /\ UNCHANGED <<storeVars, componentVars>>

ServiceSettlesRequest(q) ==
    /\ q \in ui.pend
    /\ \E r \in AwaitedAnswers(q.code) : ui' = fetchCardSetSettle(ui, q, r)
    /\ UNCHANGED <<storeVars, ncalls, componentVars>>

NextCardSetOverlap ==
    \/ \E code \in UiCodes : FetchCardSetOverlapping(code)
    \/ \E q \in ui.pend : ServiceSettlesRequest(q)

SpecCardSetOverlap == InitCardSet /\ [][NextCardSetOverlap]_vars

-----------------------------------------------------------------------------
(* The components on their own: the card store is not used and holds one   *)
(* fixed corpus.                                                           *)

InitComponents ==
    /\ Init
    /\ corpus = CHOOSE c \in CorporaOverlap : TRUE

restVars == <<storeVars, ncalls, ui, di, cst, inv>>

-----------------------------------------------------------------------------
(* The event bus: subscriptions and emits in any order; an emit call may   *)
(* start, and on, once, off may be called, while emit calls are suspended  *)
(* at their awaits.  What the handlers do when an emit calls them is an    *)
(* input of that emit.                                                     *)

MaxBusOps == 4

Emit(e, eventType, does) ==
    /\ bus.emits[e].pc = "idle" /\ bus.nops < MaxBusOps
    /\ bus' = emitCall(bus, e, eventType, does)
    /\ UNCHANGED restVars

EmitResumes(e) ==
    /\ bus.emits[e].pc \in {"await66", "await72"}
    /\ bus' = emitResume(bus, e)
    /\ UNCHANGED restVars

On(eventType, handler) ==
    /\ bus.nops < MaxBusOps
    /\ bus' = on(bus, eventType, handler)
    /\ UNCHANGED restVars

Once(eventType, handler) ==
    /\ bus.nops < MaxBusOps
    /\ bus' = once(bus, eventType, handler)
    /\ UNCHANGED restVars

Off(eventType, handler) ==
    /\ bus.nops < MaxBusOps
    /\ bus' = off(bus, eventType, handler)
    /\ UNCHANGED restVars

OffAll(eventType) ==
    /\ bus.nops < MaxBusOps
    /\ bus' = offAll(bus, eventType)
    /\ UNCHANGED restVars

Clear ==
    /\ bus.nops < MaxBusOps
    /\ bus' = clear(bus)
    /\ UNCHANGED restVars

NextBus ==
    \/ \E e \in Emitters, t \in EvTypes, does \in [Handlers -> Behaviours] :
            Emit(e, t, does)
    \/ \E e \in Emitters : EmitResumes(e)
    \/ \E t \in EvTypes, h \in Handlers : On(t, h)
    \/ \E t \in EvTypes, h \in Handlers : Once(t, h)
    \/ \E t \in EvTypes, h \in Handlers : Off(t, h)
    \/ \E t \in EvTypes : OffAll(t)
    \/ Clear

SpecBus == InitComponents /\ [][NextBus]_vars

-----------------------------------------------------------------------------
(* The container: registrations, resolutions and disposals in any order, *)
(* other calls being made while a dispose is suspended at an await.        *)

MaxRegistrations == 2
MaxResolves == 2

\* What the factories that are registered do.
Factories ==
    {[dep |-> NoDep, fails |-> FALSE, makes |-> k] : k \in InstanceKinds}
    \cup {[dep |-> i, fails |-> FALSE, makes |-> "plain"] : i \in Ids}
    \cup {[dep |-> NoDep, fails |-> TRUE, makes |-> "plain"]}

restVarsDI == <<storeVars, ncalls, ui, bus, cst, inv>>

Register(identifier, lifetime, factory) ==
    /\ di.nregs < MaxRegistrations
    /\ di' = [register(di, identifier, lifetime, factory) EXCEPT !.nregs = @ + 1]
    /\ UNCHANGED restVarsDI

RegisterInstance(identifier, inst) ==
    /\ di.nregs < MaxRegistrations
    /\ di' = [registerInstance(di, identifier, inst) EXCEPT !.nregs = @ + 1]
    /\ UNCHANGED restVarsDI

Resolve(identifier) ==
    /\ di.nres < MaxResolves
    /\ di' = Logged(di, "resolve", identifier, resolve(di, identifier))
    /\ UNCHANGED restVarsDI

ResolveAll(identifier) ==
    /\ di.nres < MaxResolves
    /\ di' = Logged(di, "resolveAll", identifier, resolveAll(di, identifier))
    /\ UNCHANGED restVarsDI

TryResolve(identifier) ==
    /\ di.nres < MaxResolves
    /\ di' = Logged(di, "tryResolve", identifier, tryResolve(di, identifier))
    /\ UNCHANGED restVarsDI

Unregister(identifier) ==
    /\ di.nregs < MaxRegistrations
    /\ di' = [unregister(di, identifier) EXCEPT !.nregs = @ + 1]
    /\ UNCHANGED restVarsDI

ClearContainer ==
    /\ di.nregs < MaxRegistrations
    /\ di' = [clearContainer(di) EXCEPT !.nregs = @ + 1]
    /\ UNCHANGED restVarsDI

\* dispose() is called while no other call of it is suspended.
Dispose ==
    /\ di.nregs < MaxRegistrations /\ di.disposing # "await"
    /\ di' = [dispose(di) EXCEPT !.nregs = @ + 1]
    /\ UNCHANGED restVarsDI

\* The promise dispose awaits settles.
DisposeResumes(rejected) ==
    /\ di.disposing = "await"
    /\ di' = disposeResume(di, rejected)
    /\ UNCHANGED restVarsDI

\* One scope is made and used.
CreateScope ==
    /\ ~di.scope.live
    /\ di' = createScope(di)
    /\ UNCHANGED restVarsDI

ScopeResolve(identifier) ==
    /\ di.scope.live /\ di.nres < MaxResolves
    /\ di' = Logged(di, "scope.resolve", identifier, scopeResolve(di, identifier))
    /\ UNCHANGED restVarsDI

ScopeDispose ==
    /\ di.scope.live /\ di.nregs < MaxRegistrations /\ di.scope.disposing # "await"
    /\ di' = [scopeDispose(di) EXCEPT !.nregs = @ + 1]
    /\ UNCHANGED restVarsDI

ScopeDisposeResumes(rejected) ==
    /\ di.scope.disposing = "await"
    /\ di' = scopeDisposeResume(di, rejected)
    /\ UNCHANGED restVarsDI

NextContainer ==
    \/ \E i \in Ids, l \in Lifetimes, f \in Factories : Register(i, l, f)
    \/ \E i \in Ids, k \in InstanceKinds : RegisterInstance(i, k)
    \/ \E i \in Ids : Resolve(i)
    \/ \E i \in Ids : ResolveAll(i)
    \/ \E i \in Ids : TryResolve(i)
    \/ \E i \in Ids : Unregister(i)
    \/ ClearContainer
    \/ Dispose
    \/ \E rejected \in BOOLEAN : DisposeResumes(rejected)
    \/ CreateScope
    \/ \E i \in Ids : ScopeResolve(i)
    \/ ScopeDispose
    \/ \E rejected \in BOOLEAN : ScopeDisposeResumes(rejected)

SpecContainer == InitComponents /\ [][NextContainer]_vars

-----------------------------------------------------------------------------
(* The 'cards' store: its four actions in any order; fetchCardSet may be   *)
(* called, and the other actions too, while earlier fetches are suspended. *)

MaxStoreOps == 3

restVarsStore == <<storeVars, ncalls, ui, bus, di, inv>>

CardsFetchCardSet(setCode) ==
    /\ cst.nops < MaxStoreOps /\ Cardinality(cst.pend) < MaxPending
    /\ cst' = Called(cardsFetchCardSetCall(cst, setCode), "fetchCardSet", setCode)
    /\ UNCHANGED restVarsStore

CardsServiceSettles(q) ==
    /\ q \in cst.pend
    /\ \E r \in AwaitedAnswers(q.code) : cst' = cardsFetchCardSetSettle(cst, q, r)
    /\ UNCHANGED restVarsStore

SetCurrentSet(setCode) ==
    /\ cst.nops < MaxStoreOps
    /\ cst' = Called(setCurrentSet(cst, setCode), "setCurrentSet", setCode)
    /\ UNCHANGED restVarsStore

ClearCache ==
    /\ cst.nops < MaxStoreOps
    /\ cst' = Called(clearCache(cst), "clearCache", "")
    /\ UNCHANGED restVarsStore

ClearError(setCode) ==
    /\ cst.nops < MaxStoreOps
    /\ cst' = Called(clearError(cst, setCode), "clearError", setCode)
    /\ UNCHANGED restVarsStore

NextCardsStore ==
    \/ \E c \in StoreCodes : CardsFetchCardSet(c)
    \/ \E q \in cst.pend : CardsServiceSettles(q)
    \/ \E c \in StoreCodes : SetCurrentSet(c)
    \/ ClearCache
    \/ \E c \in StoreCodes : ClearError(c)

InitCardsStore ==
    /\ corpus \in ServiceCorpora
    /\ avail = {"A"}
    /\ objs = <<>>
    /\ sets = <<>>
    /\ cardSets = [c \in CacheKeys |-> 0]
    /\ fetches = [c \in CacheKeys |-> 0]
    /\ tasks = [t \in Tasks |-> IdleTask]
    /\ ncalls = 0
    /\ res = NoOutcome
    /\ lastRepl = NoRepl
    /\ ui = useCardSet("")
    /\ ComponentsInit

SpecCardsStore == InitCardsStore /\ [][NextCardsStore]_vars

-----------------------------------------------------------------------------
(* The command invoker: execute, undo, redo, setMaxHistorySize and         *)
(* clearHistory in any order.  A call of execute, undo or redo that has    *)
(* reached its await goes on in a step of its own, and other calls can be  *)
(* made before it does.                                                    *)

MaxInvokerOps == 6
MaxInvokerCalls == 2
HistorySizes == {1, 2, 3}

restVarsInvoker == <<storeVars, ncalls, ui, bus, di, cst>>

\* A call can be made.
CanInvoke == inv.nops < MaxInvokerOps /\ Len(inv.calls) < MaxInvokerCalls

Execute(command, validation, does) ==
    /\ CanInvoke
    /\ inv' = execute(Invoked(inv), command, validation, does)
    /\ UNCHANGED restVarsInvoker

ExecuteResumes(i, outcome, does) ==
    /\ i \in 1..Len(inv.calls) /\ inv.calls[i].op = "execute"
    /\ inv' = executeResume(Resumed(inv, i), inv.calls[i], outcome, does)
    /\ UNCHANGED restVarsInvoker

Undo(does) ==
    /\ CanInvoke
    /\ inv' = undo(Invoked(inv), does)
    /\ UNCHANGED restVarsInvoker

UndoResumes(i, outcome) ==
    /\ i \in 1..Len(inv.calls) /\ inv.calls[i].op = "undo"
    /\ inv' = undoResume(Resumed(inv, i), outcome)
    /\ UNCHANGED restVarsInvoker

Redo(does) ==
    /\ CanInvoke
    /\ inv' = redo(Invoked(inv), does)
    /\ UNCHANGED restVarsInvoker

RedoResumes(i, outcome) ==
    /\ i \in 1..Len(inv.calls) /\ inv.calls[i].op = "redo"
    /\ inv' = redoResume(Resumed(inv, i), outcome)
    /\ UNCHANGED restVarsInvoker

SetMaxHistorySize(size) ==
    /\ inv.nops < MaxInvokerOps
    /\ inv' = setMaxHistorySize(Invoked(inv), size)
    /\ UNCHANGED restVarsInvoker

ClearHistory ==
    /\ inv.nops < MaxInvokerOps
    /\ inv' = clearHistory(Invoked(inv))
    /\ UNCHANGED restVarsInvoker

NextInvoker ==
    \/ \E c \in Commands, v \in CallBehaviours \cup {"none"}, d \in CallBehaviours :
          Execute(c, v, d)
    \/ \E i \in 1..MaxInvokerCalls, o \in CommandOutcomes, d \in CallBehaviours :
          ExecuteResumes(i, o, d)
    \/ \E d \in CallBehaviours : Undo(d)
    \/ \E i \in 1..MaxInvokerCalls, o \in CommandOutcomes : UndoResumes(i, o)
    \/ \E d \in CallBehaviours : Redo(d)
    \/ \E i \in 1..MaxInvokerCalls, o \in CommandOutcomes : RedoResumes(i, o)
    \/ \E size \in HistorySizes : SetMaxHistorySize(size)
    \/ ClearHistory

SpecInvoker == InitComponents /\ [][NextInvoker]_vars

-----------------------------------------------------------------------------
(* Card numbers: set "A" has three cards whose numbers are drawn from      *)
(* strings with equal and with different integer values ("1", "01", "9",   *)
(* "10"); its third card is a full card, or a stub that references B:1 or  *)
(* a card of A by one of the numbers "1", "001", "10", "2".  buildSet is   *)
(* called on "A", one call after another.                                  *)

CardNums == {<<"1">>, <<"0", "1">>, <<"9">>, <<"1", "0">>}

FindCardNumsA == {<<"1">>, <<"0", "0", "1">>, <<"1", "0">>, <<"2">>}

CardsNumsA3(n) ==
    {Card(n, "nameA3", 30, "imgA3", "titleA3", "", NoRef),
     Stub(n, "", "titleA3", "", Ref("B", <<"1">>, "fromA3"))}
    \cup {Stub(n, "", "titleA3", "", Ref("A", m, "fromA3")) : m \in FindCardNumsA}

CorporaNums ==
    {[c \in DocCodes |->
        IF c = "A"
        THEN [set |-> "A", desc |-> "Set A",
              cards |-> <<Card(n1, "nameA1", 10, "imgA1", "titleA1", "", NoRef),
                          Card(n2, "nameA2", 20, "imgA2", "titleA2", "", NoRef),
                          a3>>]
        ELSE [set |-> "B", desc |-> "Set B",
              cards |-> <<Card(<<"1">>, "nameB1", 30, "imgB1", "titleB1", "", NoRef),
                          Card(<<"2">>, "nameB2", 40, "imgB2", "titleB2", "", NoRef)>>]] :
     <<n1, n2, a3>> \in
        UNION {{<<m1, m2, c3>> : c3 \in CardsNumsA3(m3)} :
               <<m1, m2, m3>> \in CardNums \X CardNums \X CardNums}}

InitNums ==
    /\ corpus \in CorporaNums
    /\ avail = {"A"}
    /\ objs = <<>>
    /\ sets = <<>>
    /\ cardSets = [c \in CacheKeys |-> 0]
    /\ fetches = [c \in CacheKeys |-> 0]
    /\ tasks = [t \in Tasks |-> IdleTask]
    /\ ncalls = 0
    /\ res = NoOutcome
    /\ lastRepl = NoRepl
    /\ ui = useCardSet("")
    /\ ComponentsInit

NextNums ==
    \/ Quiet /\ CallBuildSet(1, "A")
    \/ FetchDone(1)
    \/ ResumeFindSet(1)
    \/ Deliver(1)
    \/ ResumeFindCard(1)
    \/ ResumeBuildSet(1)
    \/ \E c \in DocCodes : Publish(c)

SpecNums == InitNums /\ [][NextNums]_vars

-----------------------------------------------------------------------------
(* Vocabulary of the properties *)

\* Task t starts the call op(setName) in this step.
Starts(t, op, setName) ==
    /\ tasks[t].pc = "idle" /\ ncalls' = ncalls + 1
    /\ tasks'[t].op = op /\ tasks'[t].setName = setName

\* The call of task t returns or throws in this step.
Settles(t) == tasks[t].pc # "returned" /\ tasks'[t].pc = "returned"

\* The caller of task t resumes in this step: res' is what it receives.
Completes(t) == tasks[t].pc = "returned" /\ tasks'[t].pc = "idle"

\* The caller of a call that threw receives the error that was thrown.
ErrorsAreDelivered ==
    [][\A t \in Tasks :
        (Completes(t) /\ tasks[t].out.kind # "ok") => res' = tasks[t].out]_vars

\* The content query task t waits for answers in this step with no document.
QueryComesBackEmpty(t) ==
    /\ tasks[t].pc = "FS_fetch" /\ tasks'[t] # tasks[t]
    /\ QueryFirst(tasks[t].code) = {}

\* The authored document of code has a card with this integer number.
HasCardNumbered(code, num) ==
    \E j \in 1..Len(corpus[code].cards) :
        NumEq(parseInt(StringOfNum(corpus[code].cards[j].num)),
              parseInt(StringOfNum(num)))

\* The set:num pair a ref of a card of set `code` points at.
TargetSet(code, r) == IF Truthy(r.set) THEN r.set ELSE code

\* The pair set:num exists nowhere in the authored documents.
PairMissing(set, num) ==
    set \notin DOMAIN corpus \/ ~HasCardNumbered(set, num)

\* Some card of the authored document of `code` has a ref with a num whose
\* set:num pair is missing.
HasMissingRef(code) ==
    \E j \in 1..Len(corpus[code].cards) :
        LET r == corpus[code].cards[j].ref
        IN  r.has /\ TruthyNum(r.num) /\ PairMissing(TargetSet(code, r), r.num)

\* The refs of the cards of the authored document of `code`.
RefsOf(code) ==
    {corpus[code].cards[j].ref : j \in {i \in 1..Len(corpus[code].cards) :
                                            corpus[code].cards[i].ref.has}}

\* The position of the card with this title in the authored document of code.
DocPosition(code, title) ==
    CHOOSE p \in 1..Len(corpus[code].cards) : corpus[code].cards[p].title = title

\* The integer that a card number made of decimal digits denotes.
RECURSIVE IntegerValue(_)
IntegerValue(num) ==
    IF num = <<>> THEN 0
    ELSE IntegerValue(SubSeq(num, 1, Len(num) - 1)) * 10 + DigitVal(num[Len(num)])

\* The indices of the cards whose number has the integer value of num.
IntegerHits(cards, num) ==
    {j \in 1..Len(cards) : IntegerValue(cards[j].num) = IntegerValue(num)}

\* A findCard that buildSet of task t has called resumes in this step with
\* the Set object findSet returned, and returns or throws.
FindCardSettles(t) ==
    /\ tasks[t].op = "buildSet" /\ tasks[t].pc = "FS_ret" /\ tasks[t].bpc # 47
    /\ tasks'[t] # tasks[t]

\* buildSet of task t comes in this step to line 52 for a card whose ref has
\* a num and no set.
ReachesUnsetRef(t) ==
    /\ tasks'[t].op = "buildSet" /\ tasks'[t].bpc = 52
    /\ tasks[t].bpc # 52 \/ tasks'[t].i # tasks[t].i
    /\ ~Truthy(objs[tasks'[t].card].ref.set)
    /\ TruthyNum(objs[tasks'[t].card].ref.num)

\* The findCard of line 52 of task t returns a card in this step.
FirstTargetFound(t) ==
    /\ tasks[t].op = "buildSet" /\ tasks[t].bpc = 52 /\ tasks[t].pc = "FS_ret"
    /\ tasks'[t].pc = "FC_ret"

\* The cards of the authored documents that have artwork and no ref.
TerminalCards ==
    {corpus[c].cards[j] : <<c, j>> \in
        {<<c, j>> \in DocCodes \X (1..3) :
            /\ j <= Len(corpus[c].cards)
            /\ ~corpus[c].cards[j].ref.has /\ corpus[c].cards[j].img # ""}}

\* How many cards of the sequence have this num.
CountNum(cards, num) == Cardinality({i \in 1..Len(cards) : cards[i].num = num})

\* The card a ref of the authored card at position p = <<code, j>> points at,
\* as a position, <<"", 0>> when there is none.
NoPosition == <<"", 0>>
Follow(p) ==
    IF p = NoPosition THEN NoPosition
    ELSE LET r == corpus[p[1]].cards[p[2]].ref
             ts == TargetSet(p[1], r)
             hits == IF r.has /\ TruthyNum(r.num) /\ ts \in DOMAIN corpus
                     THEN IntegerHits(corpus[ts].cards, r.num) ELSE {}
         IN  IF hits = {} THEN NoPosition
             ELSE <<ts, CHOOSE j \in hits : \A h \in hits : j <= h>>

\* Some card of the authored document of code starts a chain of refs that
\* never ends: after more hops than there are cards it is still on a card.
RefsReachCycle(code) ==
    \E j \in 1..Len(corpus[code].cards) :
        Follow(Follow(Follow(Follow(Follow(<<code, j>>))))) # NoPosition

-----------------------------------------------------------------------------
(* Properties of the card store *)

\* C1: when buildSet(code) has returned a set and the next call, buildSet of
\* the same code on the same store, completes, it returns a set too and the
\* two returned sets are equal by value.
C1_RebuildIsValueEqual ==
    [][\A t \in Tasks :
        (/\ res.op = "buildSet" /\ res.kind = "ok"
         /\ tasks[t].op = "buildSet" /\ tasks[t].setName = res.setName
         /\ Completes(t))
        => (res'.kind = "ok" /\ res'.set = res.set)]_vars

\* C2: every entry of the cache holds exactly the document the content source
\* returned for its set code: same cards, same fields, same order.
C2_CacheHoldsRawDocument ==
    \A c \in CacheKeys :
        cardSets[c] # 0 => SetValue(objs, sets, cardSets[c]) = corpus[c]

\* C3: the display card that line 70 puts in the place of a referencing card
\* equals the resolved target in every field, except that ref, title, num and
\* alt are the referencing card's own and that img is the referencing card's
\* when it has one.
C3_DisplayCardMergesTargetAndReferrer ==
    lastRepl.n > 0 =>
        /\ lastRepl.old.ref.has
        /\ lastRepl.new.name = lastRepl.f.name
        /\ lastRepl.new.hp = lastRepl.f.hp
        /\ lastRepl.new.ref = lastRepl.old.ref
        /\ lastRepl.new.title = lastRepl.old.title
        /\ lastRepl.new.num = lastRepl.old.num
        /\ lastRepl.new.alt = lastRepl.old.alt
        /\ lastRepl.new.img = IF lastRepl.old.img # "" THEN lastRepl.old.img
                              ELSE lastRepl.f.img

\* C3 witness: buildSet("A") has put a display card in the place of card "2"
\* of A, a stub that references B:1 and has no artwork; it has the name, hp
\* and img of B:1 and the stub's from, num and title.
C3_Witness ==
    /\ lastRepl.n > 0
    /\ lastRepl.old.num = <<"2">> /\ lastRepl.old.img = ""
    /\ lastRepl.old.ref.set = "B" /\ lastRepl.old.ref.num = <<"1">>
    /\ lastRepl.new.name = "nameB1" /\ lastRepl.new.hp = 30
    /\ lastRepl.new.img = "imgB1" /\ lastRepl.new.ref.from = "fromA2"
    /\ lastRepl.new.num = <<"2">> /\ lastRepl.new.title = "titleA2"
    /\ res.op = "buildSet" /\ res.setName = "A" /\ res.kind = "ok"
    /\ \E j \in 1..Len(res.set.cards) : res.set.cards[j] = lastRepl.new

\* C4 as stated: a buildSet of a set one of whose cards references a missing
\* set:num pair ends with a 404 error whose message names such a pair, and
\* returns no set.
C4_MissingRefNamesPair ==
    (res.op = "buildSet" /\ res.setName \in DOMAIN corpus /\ HasMissingRef(res.setName))
    => /\ res.kind = "H3Error" /\ res.status = 404 /\ res.set = NoSet
       /\ res.statusText.colon
       /\ \E r \in RefsOf(res.setName) :
            /\ PairMissing(TargetSet(res.setName, r), r.num)
            /\ res.statusText.set = TargetSet(res.setName, r)
            /\ res.statusText.num = r.num

\* C4 amended: a buildSet of a set one of whose cards references a missing
\* set:num pair fails and returns no set; the error is the one of the first
\* lookup that failed.  It is a 404 error whose message names that lookup's
\* set alone when the content source has no document for the set, and that
\* lookup's set:num when the set is there and has no card with that number;
\* it is a TypeError when the lookup was made for a ref without a set and
\* with an empty num.
C4_MissingRefFails ==
    /\ [][\A t \in Tasks :
        (/\ tasks[t].op = "buildSet" /\ tasks[t].setName \in DOMAIN corpus
         /\ HasMissingRef(tasks[t].setName)
         /\ Settles(t))
        => LET out == tasks'[t].out
           IN  /\ out.kind \in {"H3Error", "TypeError"} /\ out.set = NoSet
               /\ tasks'[t].val = 0
               /\ out.kind = "TypeError" =>
                     /\ tasks[t].pc = "FC_ret" \/ tasks[t].bpc = 47
                     /\ \E c \in 1..Len(objs) :
                           /\ objs[c].ref.has /\ Nullish(objs[c].ref.set)
                           /\ objs[c].ref.num = <<>>
                     /\ tasks'[t].num = <<>>
               /\ out.kind = "H3Error" =>
                     /\ out.status = 404
                     /\ out.statusText.set = tasks[t].code
                     /\ out.statusText.text = " does not exist."
                     /\ IF QueryFirst(tasks[t].code) = {} /\ tasks[t].pc = "FS_fetch"
                        THEN ~out.statusText.colon
                        ELSE /\ out.statusText.colon
                             /\ out.statusText.num = StringOfNum(tasks[t].num)
                             /\ PairMissing(tasks[t].code, tasks[t].num)]_vars
    /\ ErrorsAreDelivered

\* C4 witness: buildSet("A") has failed on the reference B:3 of card "2" of A,
\* B being there without a card 3.
C4_Witness ==
    /\ res.op = "buildSet" /\ res.setName = "A" /\ res.status = 404
    /\ res.statusText = StatusText("B", TRUE, <<"3">>, " does not exist.")
    /\ corpus["A"].cards[1].ref.num = <<"3">>
    /\ cardSets["B"] # 0

\* C5: per set code the content source delivers its document at most once;
\* the request that got it stores it as soon as findSet goes on after its
\* await; an entry once made stays and is served without a content query;
\* and every findSet returns a value equal to the document that the first
\* request got.
C5_FetchedOnceAndEqual ==
    /\ [](\A c \in DocCodes :
            Cardinality({sid \in 1..Len(sets) : sets[sid].set = c}) <= 1)
    /\ [](\A sid \in 1..Len(sets) :
            \/ cardSets[sets[sid].set] = sid
            \/ \E t \in Tasks : tasks[t].pc = "GS_ret" /\ tasks[t].val = sid)
    /\ [][\A c \in CacheKeys :
            cardSets[c] # 0 => /\ cardSets'[c] = cardSets[c]
                               /\ fetches'[c] = fetches[c]]_vars
    /\ []((res.op = "findSet" /\ res.kind = "ok") => res.set = corpus[res.setName])

\* C6: at no time are two content queries for the same set code in flight.
C6_OneFetchInFlight ==
    \A c \in CacheKeys :
        Cardinality({t \in Tasks : tasks[t].pc = "FS_fetch" /\ tasks[t].code = c}) <= 1

\* C7: a lookup whose content query comes back empty adds no cache entry and
\* raises the error; a findSet that follows a failed findSet of the same code
\* runs the content query again; and a query that finds the document makes
\* the call succeed with that document, now cached.
C7_FailedLookupNotCached ==
    [][\A t \in Tasks :
        /\ QueryComesBackEmpty(t)
            => /\ cardSets' = cardSets /\ cardSets[tasks[t].code] = 0
               /\ Settles(t) /\ tasks'[t].out.kind = "H3Error"
        /\ (Completes(t) /\ tasks[t].out.kind = "H3Error")
            => (res' = tasks[t].out /\ cardSets' = cardSets)
        /\ (/\ res.op = "findSet" /\ res.kind = "H3Error"
            /\ Starts(t, "findSet", res.setName))
            => /\ fetches'[res.setName] = fetches[res.setName] + 1
               /\ tasks'[t].pc = "FS_fetch"
        /\ (/\ tasks[t].pc = "FS_fetch" /\ tasks[t].op = "findSet"
            /\ tasks'[t] # tasks[t] /\ tasks[t].code \in avail)
            => /\ tasks'[t].pc = "GS_ret"
               /\ SetValue(objs', sets', tasks'[t].val) = corpus[tasks[t].code]
        /\ (/\ tasks[t].pc = "GS_ret" /\ tasks[t].op = "findSet"
            /\ tasks'[t] # tasks[t])
            => /\ Settles(t) /\ tasks'[t].out.kind = "ok"
               /\ cardSets'[tasks[t].code] = tasks[t].val
               /\ tasks'[t].val = tasks[t].val
        /\ (Completes(t) /\ tasks[t].op = "findSet" /\ tasks[t].out.kind = "ok")
            => /\ res'.kind = "ok"
               /\ res'.set = SetValue(objs, sets, cardSets[tasks[t].code])]_vars

\* C7 witness: findSet("B") has failed while B was not served, B has been
\* published, and the next findSet("B") has fetched again and succeeded.
C7_Witness ==
    /\ res.op = "findSet" /\ res.setName = "B" /\ res.kind = "ok"
    /\ fetches["B"] = 2 /\ cardSets["B"] # 0

\* C8: when the content query for the code of a findSet comes back empty, the
\* call fails with status 404 and a message made of the requested code
\* followed by ' does not exist.'.
C8_SetNotFoundCarriesCode ==
    [][\A t \in Tasks :
        /\ (QueryComesBackEmpty(t) /\ tasks[t].op = "findSet")
            => LET out == tasks'[t].out
               IN  /\ Settles(t)
                   /\ out.op = "findSet" /\ out.kind = "H3Error" /\ out.status = 404
                   /\ out.statusText = StatusText(tasks[t].setName, FALSE, <<>>,
                                                   " does not exist.")
                   /\ out.set = NoSet
        /\ (Completes(t) /\ tasks[t].out.status = 404) => res' = tasks[t].out]_vars

\* C8 witness: findSet("X") has failed with 404 'X does not exist.'.
C8_Witness ==
    /\ res.op = "findSet" /\ res.setName = "X" /\ res.status = 404
    /\ res.statusText.set = "X" /\ fetches["X"] > 0

\* C9: findSet with an empty or undefined code runs no content query, adds no
\* cache entry and fails with an error that is not a not-found error.
C9_FindSetRejectsEmptyCode ==
    /\ fetches[""] = 0
    /\ cardSets[""] = 0
    /\ \A t \in Tasks : ~(tasks[t].op = "findSet" /\ tasks[t].setName \in {"", Undefined}
                          /\ tasks[t].pc \notin {"idle", "returned"})
    /\ (res.op = "findSet" /\ res.setName \in {"", Undefined})
        => (res.kind # "ok" /\ res.status # 404)

\* C10: buildSet with an empty or undefined code is over at once with a
\* status-500 error, and the cache and the fetch counts are what they were.
C10_BuildSetRejectsEmptyCode ==
    [][\A t \in Tasks : \A s \in {"", Undefined} :
        /\ Starts(t, "buildSet", s)
            => LET out == tasks'[t].out
               IN  /\ Settles(t)
                   /\ out.kind = "H3Error" /\ out.status = 500
                   /\ out.statusText.text = "Parameter setName must be defined."
                   /\ out.set = NoSet
                   /\ cardSets' = cardSets /\ fetches' = fetches
                   /\ objs' = objs /\ sets' = sets
        /\ (Completes(t) /\ tasks[t].op = "buildSet" /\ tasks[t].setName = s)
            => /\ res' = tasks[t].out
               /\ cardSets' = cardSets /\ fetches' = fetches
               /\ objs' = objs /\ sets' = sets]_vars

\* C10 witness: buildSet("") has failed with status 500 on a store that holds
\* a cached set, which is still there.
C10_Witness ==
    /\ res.op = "buildSet" /\ res.setName = "" /\ res.status = 500
    /\ cardSets["A"] # 0 /\ fetches["A"] = 1 /\ fetches[""] = 0
    /\ tasks[1].pc = "idle"

\* C11: the cards of a set that buildSet returns are the cards of the document,
\* each once, in ascending order of the integer value of num ("9" before
\* "10"); cards with the same integer value are in the order they have in
\* the document.
C11_SortedByNumberStable ==
    (res.op = "buildSet" /\ res.kind = "ok") =>
        LET cs == res.set.cards
            doc == corpus[res.setName].cards
        IN  /\ Len(cs) = Len(doc)
            /\ {cs[i].title : i \in 1..Len(cs)} = {doc[i].title : i \in 1..Len(doc)}
            /\ \A i, j \in 1..Len(cs) : i < j =>
                 /\ IntegerValue(cs[i].num) <= IntegerValue(cs[j].num)
                 /\ IntegerValue(cs[i].num) = IntegerValue(cs[j].num)
                     => DocPosition(res.setName, cs[i].title)
                            < DocPosition(res.setName, cs[j].title)

\* C11 witness: the document of A has the numbers "10", "9", "9", the third
\* card being a stub that references B:1; buildSet("A") has returned the two
\* cards "9" in document order, the resolved stub second, and "10" last.
C11_Witness ==
    /\ res.op = "buildSet" /\ res.setName = "A" /\ res.kind = "ok"
    /\ [i \in 1..3 |-> corpus["A"].cards[i].num] = <<<<"1", "0">>, <<"9">>, <<"9">>>>
    /\ [i \in 1..3 |-> res.set.cards[i].num] = <<<<"9">>, <<"9">>, <<"1", "0">>>>
    /\ [i \in 1..3 |-> res.set.cards[i].title] = <<"titleA2", "titleA3", "titleA1">>
    /\ res.set.cards[2].name = "nameB1"

\* C12: a findCard on a set that has cards whose number has the integer value
\* of the requested number returns the first of them, whatever the leading
\* zeros of either string.
C12_FindCardMatchesAsInteger ==
    [][\A t \in Tasks :
        FindCardSettles(t) =>
            LET cards == sets[tasks[t].val].cards
                hits == IntegerHits(SetValue(objs, sets, tasks[t].val).cards,
                                    tasks[t].num)
            IN  hits # {} =>
                  /\ tasks'[t].pc = "FC_ret"
                  /\ \E j \in hits : /\ \A h \in hits : j <= h
                                      /\ tasks'[t].val = cards[j]
                  /\ objs' = objs /\ sets' = sets]_vars

\* C12 witness: findCard("A", "001"), called for the third card of A, has
\* returned the first card of A, whose number is "1", the second card of A
\* being "01".
C12_Witness ==
    /\ tasks[1].op = "buildSet" /\ tasks[1].pc = "FC_ret" /\ tasks[1].bpc = 52
    /\ tasks[1].code = "A" /\ tasks[1].num = <<"0", "0", "1">>
    /\ objs[tasks[1].val].num = <<"1">> /\ objs[tasks[1].val].title = "titleA1"
    /\ corpus["A"].cards[2].num = <<"0", "1">>

\* C13: a findCard on a set that is there and has no card whose number has the
\* integer value of the requested number fails with status 404 and the
\* message set + ':' + num + ' does not exist.', and returns no card; the
\* error is what the caller of buildSet receives.
C13_FindCardNotFound ==
    [][\A t \in Tasks :
        /\ FindCardSettles(t) =>
              LET cs == SetValue(objs, sets, tasks[t].val).cards
                  out == tasks'[t].out
              IN  IntegerHits(cs, tasks[t].num) = {} =>
                    /\ Settles(t)
                    /\ out.kind = "H3Error" /\ out.status = 404
                    /\ out.statusText = StatusText(sets[tasks[t].val].set, TRUE,
                                                   tasks[t].num, " does not exist.")
                    /\ tasks[t].code = sets[tasks[t].val].set
                    /\ tasks'[t].val = 0 /\ out.set = NoSet
        /\ (Completes(t) /\ tasks[t].out.kind # "ok") => res' = tasks[t].out]_vars

\* C13 witness: findCard("A", "2"), called for the third card of A, has
\* failed with 404 'A:2 does not exist.', A being cached, and the caller of
\* buildSet("A") has received the error.
C13_Witness ==
    /\ res.op = "buildSet" /\ res.setName = "A"
    /\ res.status = 404 /\ res.kind = "H3Error"
    /\ res.statusText = StatusText("A", TRUE, <<"2">>, " does not exist.")
    /\ corpus["A"].cards[3].ref = Ref("A", <<"2">>, "fromA3")
    /\ cardSets["A"] # 0

\* C14: when buildSet of set A comes to a card whose ref has a num and no set,
\* the ref's set becomes A, the lookup of line 52 asks for A and that num, it
\* is served from the cache entry of A without a content query, and the
\* target it finds is a card of the set being built with that integer number.
C14_UnsetRefResolvesInOwnSet ==
    [][\A t \in Tasks :
        /\ ReachesUnsetRef(t) =>
              /\ objs'[tasks'[t].card].ref.set = tasks'[t].setName
              /\ sets[tasks'[t].set].set = tasks'[t].setName
              /\ tasks'[t].code = tasks'[t].setName
              /\ tasks'[t].num = objs[tasks'[t].card].ref.num
              /\ fetches' = fetches
              /\ tasks'[t].pc = "FS_ret"
              /\ tasks'[t].val = cardSets[tasks'[t].setName]
              /\ tasks'[t].val = tasks'[t].set
        /\ (FirstTargetFound(t) /\ objs[tasks[t].card].ref.set = tasks[t].setName) =>
              /\ \E j \in 1..Len(sets[tasks[t].set].cards) :
                    sets[tasks[t].set].cards[j] = tasks'[t].val
              /\ IntegerValue(objs[tasks'[t].val].num)
                    = IntegerValue(objs[tasks[t].card].ref.num)
              /\ fetches' = fetches]_vars

\* C14 witness: card "2" of A is a stub with ref {num: "1"}, card "01" of A is
\* a full card; buildSet("A") has returned card "2" with the name, hp and img
\* of card "01" and ref.set "A", and set B was never asked for.
C14_Witness ==
    /\ res.op = "buildSet" /\ res.setName = "A" /\ res.kind = "ok"
    /\ corpus["A"].cards[1].ref = Ref(Undefined, <<"1">>, "fromA2")
    /\ ~corpus["A"].cards[2].ref.has
    /\ \E j \in 1..Len(res.set.cards) :
         /\ res.set.cards[j].num = <<"2">> /\ res.set.cards[j].name = "nameA1"
         /\ res.set.cards[j].hp = 10 /\ res.set.cards[j].img = "imgA1"
         /\ res.set.cards[j].ref = Ref("A", <<"1">>, "fromA2")
    /\ fetches["B"] = 0 /\ fetches[""] = 0 /\ fetches["A"] = 1

\* C15: the display card of line 70 has the referencing card's img when that
\* card has one; otherwise it has the img inherited along the chain: the
\* first target's when the first target has one, else the img of the target
\* the data was copied from.
C15_OwnImgOverridesInherited ==
    lastRepl.n > 0 =>
        IF lastRepl.old.img # "" THEN lastRepl.new.img = lastRepl.old.img
        ELSE IF lastRepl.first.img # "" THEN lastRepl.new.img = lastRepl.first.img
        ELSE lastRepl.new.img = lastRepl.f.img

\* C15 witness: card "2" of A is a stub with its own img that references B:1,
\* B:1 is a stub with img that references B:2; buildSet("A") has returned
\* card "2" with the data of B:2 and its own img, not that of B:1 or B:2.
C15_Witness ==
    /\ res.op = "buildSet" /\ res.setName = "A" /\ res.kind = "ok"
    /\ corpus["A"].cards[1].img = "imgA2"
    /\ corpus["A"].cards[1].ref = Ref("B", <<"1">>, "fromA2")
    /\ corpus["B"].cards[1].img = "imgB1" /\ corpus["B"].cards[1].ref.has
    /\ corpus["B"].cards[2].img = "imgB2"
    /\ \E j \in 1..Len(res.set.cards) :
         /\ res.set.cards[j].num = <<"2">> /\ res.set.cards[j].name = "nameB2"
         /\ res.set.cards[j].img = "imgA2"

\* C17: in a set that buildSet returns, every card that carries a ref has the
\* gameplay data of a terminal card, one that has img and no ref.
C17_ResolvedToTerminal ==
    (res.op = "buildSet" /\ res.kind = "ok") =>
        \A i \in 1..Len(res.set.cards) :
            res.set.cards[i].ref.has =>
                \E c \in TerminalCards : /\ res.set.cards[i].name = c.name
                                         /\ res.set.cards[i].hp = c.hp

\* C18: in a set that buildSet returns, every card of the document that has
\* no ref is there with the field values it has in the document.
C18_RefLessCardsUnchanged ==
    (res.op = "buildSet" /\ res.kind = "ok") =>
        \A j \in 1..Len(corpus[res.setName].cards) :
            ~corpus[res.setName].cards[j].ref.has =>
                \E i \in 1..Len(res.set.cards) :
                    res.set.cards[i] = corpus[res.setName].cards[j]

\* C19: the first target has img and a ref with a num exactly when the
\* display card is built after the await of line 56; then the second lookup
\* asked for the first target's ref, its set defaulted to the referencing
\* card's ref.set,
\* and the display card has the name and hp of the card that lookup found and
\* the first target's img, or the referencing card's img when it has one.
C19_SecondLevelDataFirstLevelImg ==
    lastRepl.n > 0 =>
        /\ (/\ lastRepl.first.img # "" /\ lastRepl.first.ref.has
            /\ TruthyNum(lastRepl.first.ref.num)) <=> lastRepl.bpc = 56
        /\ lastRepl.bpc = 56 =>
             /\ lastRepl.key.set = IF Truthy(lastRepl.first.ref.set)
                                   THEN lastRepl.first.ref.set
                                   ELSE lastRepl.old.ref.set
             /\ lastRepl.key.num = lastRepl.first.ref.num
             /\ IntegerValue(lastRepl.f.num) = IntegerValue(lastRepl.key.num)
             /\ lastRepl.new.name = lastRepl.f.name
             /\ lastRepl.new.hp = lastRepl.f.hp
             /\ lastRepl.new.img = IF lastRepl.old.img # "" THEN lastRepl.old.img
                                   ELSE lastRepl.first.img

\* C19 witness: a stub of A without img references B:1, B:1 has img and the
\* ref {num: "2"}; the display card has the name and hp of B:2 and the img
\* of B:1, and buildSet has returned it.
C19_Witness ==
    /\ lastRepl.bpc = 56 /\ lastRepl.old.img = ""
    /\ lastRepl.old.ref.set = "B" /\ lastRepl.first.num = <<"1">>
    /\ lastRepl.first.img = "imgB1" /\ lastRepl.first.ref.set = Undefined
    /\ lastRepl.key = [set |-> "B", num |-> <<"2">>]
    /\ lastRepl.new.name = "nameB2" /\ lastRepl.new.hp = 40
    /\ lastRepl.new.img = "imgB1"
    /\ res.op = "buildSet" /\ res.setName = "A" /\ res.kind = "ok"
    /\ \E j \in 1..Len(res.set.cards) : res.set.cards[j] = lastRepl.new

\* C20: when the first target has a ref and no img, the display card is built
\* after the await of line 60: a second lookup asked for the first target's
\* ref.num, and the display card has the name and hp of the card that lookup
\* found, and its img unless the referencing card has one.
C20_RefOnlyTargetResolvedOnceMore ==
    (lastRepl.n > 0 /\ lastRepl.first.ref.has /\ lastRepl.first.img = "") =>
        /\ lastRepl.bpc = 60
        /\ lastRepl.key.num = lastRepl.first.ref.num
        /\ IntegerValue(lastRepl.f.num) = IntegerValue(lastRepl.first.ref.num)
        /\ lastRepl.new.name = lastRepl.f.name
        /\ lastRepl.new.hp = lastRepl.f.hp
        /\ lastRepl.old.img = "" => lastRepl.new.img = lastRepl.f.img

\* C16: while fetchCardSet waits for the service, loading is true and state
\* is LOADING; when the answer comes, loading becomes false and either state
\* is SUCCESS, cardSet and cards are the answer's data and error is null, or
\* state is ERROR, error is set, cardSet is null and cards is empty, according
\* to the answer; with no request pending, loading is false and state is not
\* LOADING; and a pending request always comes to an end.
C16_FetchCardSetSettles ==
    /\ [](ui.pc = "await" => (ui.loading /\ ui.state = "loading"))
    /\ [](ui.pc = "idle" => (~ui.loading /\ ui.state # "loading"))
    /\ [][(ui.pc = "await" /\ ui'.pc = "idle") =>
            /\ ~ui'.loading
            /\ ui'.last \in AwaitedAnswers(ui.code)
            /\ IF ui'.last.kind = "data"
               THEN /\ ui'.state = "success"
                    /\ ui'.cardSet = ui'.last.data
                    /\ ui'.cards = ui'.last.data.cards
                    /\ ui'.error = NullError
               ELSE /\ ui'.state = "error"
                    /\ ui'.error # NullError
                    /\ ui'.last.kind = "error" => ui'.error = ui'.last.error
                    /\ ui'.cardSet = NullSet
                    /\ ui'.cards = <<>>]_vars
    /\ (ui.loading ~> ~ui.loading)

\* C16 witness: a composable made without a set code has fetched a set, and a
\* second fetchCardSet, whose request the service answered by throwing, has
\* ended in state ERROR with cardSet null, cards empty and loading false.
C16_Witness ==
    /\ ncalls = 2 /\ ui.pc = "idle" /\ ui.last.kind = "throw"
    /\ ui.state = "error" /\ ui.error = ApiError("UNKNOWN_ERROR", <<"boom">>)
    /\ ui.cardSet = NullSet /\ ui.cards = <<>> /\ ~ui.loading

\* C22: a buildSet of a set one of whose cards starts a cycle of refs does
\* not return a set: it fails.
C22_CycleFails ==
    (res.op = "buildSet" /\ res.setName \in DOMAIN corpus
        /\ RefsReachCycle(res.setName))
    => res.kind # "ok"

\* C25: a step of buildSet(code) changes no card of a cached set of another
\* code: the cards of that set have the same fields before and after.
C25_OtherSetsUntouched ==
    [][\A t \in Tasks : \A c \in DocCodes :
        (/\ tasks[t].op = "buildSet" /\ tasks[t].setName # c
         /\ tasks'[t] # tasks[t] /\ cardSets[c] # 0)
        => /\ cardSets'[c] = cardSets[c]
           /\ SetValue(objs', sets', cardSets'[c]) = SetValue(objs, sets, cardSets[c])]_vars

\* C27: a set that buildSet returns has as many cards as the document, the
\* document's set code and desc, and every num as often as the document.
C27_SameCards ==
    (res.op = "buildSet" /\ res.kind = "ok") =>
        LET doc == corpus[res.setName]
        IN  /\ Len(res.set.cards) = Len(doc.cards)
            /\ res.set.set = doc.set /\ res.set.desc = doc.desc
            /\ \A i \in 1..Len(doc.cards) :
                 CountNum(res.set.cards, doc.cards[i].num)
                    = CountNum(doc.cards, doc.cards[i].num)

\* C27 witness: both cards of A are stubs that reference cards of B with other
\* numbers; buildSet("A") has returned two cards numbered "01" and "2", in
\* the other order than the document, with the data of B's cards.
C27_Witness ==
    /\ res.op = "buildSet" /\ res.setName = "A" /\ res.kind = "ok"
    /\ corpus["A"].cards[1].ref = Ref("B", <<"2">>, "fromA2")
    /\ corpus["A"].cards[2].ref = Ref("B", <<"1">>, "fromA1")
    /\ [i \in 1..2 |-> res.set.cards[i].num] = <<<<"0", "1">>, <<"2">>>>
    /\ res.set.cards[1].name = "nameB1" /\ res.set.cards[2].name = "nameB2"

\* C21: of two buildSet calls that overlap, each one that returns a set
\* returns the set that buildSet of its code returns when it runs alone on a
\* fresh store.
C21_InterleavedAsAlone ==
    (ncalls <= 2 /\ res.op = "buildSet" /\ res.kind = "ok")
    => res.set = BuildAlone(res.setName).set

\* C26: when the first call on a fresh store is a buildSet that fails with a
\* 404 error, every set the cache holds afterwards is the raw document of its
\* code: same cards, same fields, same order.
C26_FailedBuildLeavesRawSets ==
    (ncalls = 1 /\ res.op = "buildSet" /\ res.kind = "H3Error" /\ res.status = 404)
    => \A c \in DocCodes :
         cardSets[c] # 0 => SetValue(objs, sets, cardSets[c]) = corpus[c]

\* The refs of the composable show the outcome r of a request.
Reflects(u, r) ==
    IF r.kind = "data"
    THEN /\ u.state = "success" /\ u.cardSet = r.data
         /\ u.cards = r.data.cards /\ u.error = NullError
    ELSE /\ u.state = "error" /\ u.cardSet = NullSet /\ u.cards = <<>>
         /\ u.error = IF r.kind = "error" THEN r.error
                      ELSE ApiError("UNKNOWN_ERROR",
                                    IF r.isError THEN r.message
                                    ELSE <<"Unknown error occurred">>)

\* C28: with overlapping requests on one composable, loading is true while
\* a request is pending, and when no request is pending the refs cardSet,
\* cards, error and state show the outcome of the request started last.
C28_LatestRequestWins ==
    /\ ui.pend # {} => ui.loading
    /\ (ui.pend = {} /\ ui.nreq > 0) => Reflects(ui, ui.latest)

\* C23: as long as no emit has rejected, a handler subscribed with once,
\* one time, never with on and never removed, is called at most once, and
\* it has been called exactly once when an emit of its type that started
\* after the subscription is over.
C23_OnceInvokedExactlyOnce ==
    \A h \in Handlers :
        (/\ bus.onces[h] = 1 /\ h \notin bus.plain /\ h \notin bus.cancelled
         /\ ~bus.failed)
        => /\ bus.invoked[h] <= 1
           /\ h \in bus.due => bus.invoked[h] = 1

\* Where the chain of factories that starts at an identifier ends: at an
\* identifier already on the chain ("cycle"), at one that is not registered
\* ("missing"), or at a stored singleton or a factory that resolves nothing
\* ("end").
RECURSIVE ChainEnd(_, _, _, _)
ChainEnd(regs, singles, identifier, path) ==
    IF identifier \in path THEN "cycle"
    ELSE IF regs[identifier] = NoReg THEN "missing"
    ELSE IF regs[identifier].lifetime = "singleton" /\ identifier \in singles THEN "end"
    ELSE IF regs[identifier].dep = NoDep THEN "end"
    ELSE ChainEnd(regs, singles, regs[identifier].dep, path \cup {identifier})

\* C24: between top-level calls no identifier is marked as being resolved;
\* a resolve whose chain of factories comes back to an identifier on the
\* chain throws the circular dependency error for that identifier; a resolve
\* whose chain ends without a cycle, every factory returning an instance,
\* gives an instance.
C24_CircularDetectedAndCleared ==
    /\ [](di.resolving = {})
    /\ [][(di'.nres = di.nres + 1 /\ di'.last.op = "resolve") =>
            LET end == ChainEnd(di.registrations, MapKeys(di.singletons), di'.last.id, {})
            IN  /\ end = "cycle" => di'.last.kind = "circular"
                /\ (end = "end" /\ \A i \in Ids : ~di.registrations[i].fails)
                     => di'.last.kind = "ok"]_vars

\* C24 witness: resolve("a") with a -> b -> a has thrown the circular
\* dependency error, which names "a", and no identifier is marked.
C24_Witness ==
    /\ di.last.op = "resolve" /\ di.last.id = "a" /\ di.last.kind = "circular"
    /\ di.last.who = "a"
    /\ di.registrations["a"].dep = "b" /\ di.registrations["b"].dep = "a"
    /\ di.resolving = {} /\ di.nres = 1

\* C29: in the 'cards' store currentSetCode is null or a key of cardSets; a
\* fetchCardSet that ends without data leaves cardSets and currentSetCode
\* unchanged and loading false for its code, and records the error of an
\* error result under its code; a fetchCardSet for a cached code makes no
\* service call and suspends nothing.
C29_CardsStoreConsistent ==
    /\ [](\/ cst.currentSetCode = NullCode
          \/ cst.cardSets[cst.currentSetCode] # NullSet)
    /\ [][(cst'.pend # cst.pend /\ cst'.pend \subseteq cst.pend
            /\ cst'.last.answer.kind # "data") =>
            /\ cst'.cardSets = cst.cardSets
            /\ cst'.currentSetCode = cst.currentSetCode
            /\ cst'.loading[cst'.last.code] = "false"
            /\ cst'.last.answer.kind = "error"
                 => cst'.errors[cst'.last.code] = cst'.last.answer.error]_vars
    /\ [][(cst'.nops = cst.nops + 1 /\ cst'.op = "fetchCardSet"
            /\ cst.cardSets[cst'.arg] # NullSet) =>
            /\ cst'.nsvc = cst.nsvc /\ cst'.pend = cst.pend
            /\ cst'.currentSetCode = cst'.arg]_vars

\* C29 witness: set A was fetched and a second fetchCardSet('A') made no
\* service call; then fetchCardSet('X') failed: its error is recorded under
\* X, A is still the current set, nothing is loading.
C29_Witness ==
    /\ cst.nops = 3 /\ cst.nsvc = 2 /\ cst.pend = {}
    /\ cst.last.code = "X" /\ cst.last.answer.kind = "error"
    /\ cst.errors["X"] = ApiError("NOT_FOUND", <<"Card set ", "X", " not found">>)
    /\ cst.currentSetCode = "A" /\ validateCardSet(corpus["A"]).success
    /\ cst.cardSets["A"] = validateCardSet(corpus["A"]).data
    /\ cst.cardSets["A"] # corpus["A"]
    /\ cst.cardSets["X"] = NullSet
    /\ cst.loading["X"] = "false" /\ cst.loading["A"] = "false"

\* C30: as long as the calls of the invoker are made one after another, each
\* awaited, currentIndex is between -1 and history.length - 1 and the
\* history is not longer than maxHistorySize.
C30_HistoryInvariant ==
    ~inv.overlap =>
        /\ -1 <= inv.currentIndex
        /\ inv.currentIndex <= Len(inv.history) - 1
        /\ Len(inv.history) <= inv.maxHistorySize

====
